---- MODULE Spec2Model ----
(***************************************************************************)
(* A model of @ffz/api-router: the router tree (lib/router.js), the        *)
(* middleware composer (lib/composer.js) and the mount middleware          *)
(* (lib/mount.js).                                                         *)
(*                                                                         *)
(* JavaScript values are modelled as follows.                              *)
(*  - A string that the code only compares is a TLA+ string; "" stands for *)
(*    undefined / null / the empty string (all falsy).                     *)
(*  - A path is the sequence of its characters, over the small alphabet    *)
(*    "/", "a", "b", "*" and the parameter atoms ":p", ":q" (one atom per  *)
(*    ":name"); '' is << >>.  Concatenating paths is \o.                   *)
(*  - A plain object or a Map is an ordered object: a sequence of records  *)
(*    [k, v] in insertion order, as Object.entries / Map.entries see it.   *)
(*  - A function value is a record [kind, id, n, val]: which API it was    *)
(*    given to (kind), its identity (id, n) and, for a dataware handler,   *)
(*    the value its constructor was called with (val).                     *)
(*  - An optional number (a `sort` property) is << >> or <<n>>.            *)
(***************************************************************************)
EXTENDS Integers, Sequences, FiniteSets, TLC

\* ------------------------------------------------------------------ values

FoldL(Op(_, _), acc, s) ==
    LET f[i \in 0..Len(s)] == IF i = 0 THEN acc ELSE Op(f[i - 1], s[i])
    IN  f[Len(s)]

Has(o, key) == \E i \in 1..Len(o) : o[i].k = key

Get(o, key) == o[CHOOSE i \in 1..Len(o) : o[i].k = key].v

Put(o, key, val) ==
    IF Has(o, key)
    THEN [i \in 1..Len(o) |-> IF o[i].k = key THEN [k |-> key, v |-> val] ELSE o[i]]
    ELSE Append(o, [k |-> key, v |-> val])

Del(o, key) == SelectSeq(o, LAMBDA e : e.k # key)

GetOr(o, key, dflt) == IF Has(o, key) THEN Get(o, key) ELSE dflt

Elems(s) == {s[i] : i \in 1..Len(s)}

Fn(kind, id, n, val) == [kind |-> kind, id |-> id, n |-> n, val |-> val]

\* ------------------------------------------------------------------ paths

ParamAtoms == {":p", ":q"}

StartsWith(s, p) == Len(p) <= Len(s) /\ SubSeq(s, 1, Len(p)) = p

StrTok(s) == [str |-> TRUE, s |-> s, name |-> ""]

KeyTok(a) == [str |-> FALSE, s |-> << >>, name |-> a]

\* pathToRegexp.parse: literal runs become string tokens; a parameter takes
\* the character before it as its prefix, out of the preceding literal.
TokStep(acc, a) ==
    IF a \in ParamAtoms
    THEN [toks |-> (IF Len(acc.cur) <= 1 THEN acc.toks
                    ELSE Append(acc.toks, StrTok(SubSeq(acc.cur, 1, Len(acc.cur) - 1))))
                   \o <<KeyTok(a)>>,
          cur  |-> << >>]
    ELSE [toks |-> acc.toks, cur |-> Append(acc.cur, a)]

TokFlush(acc) == IF acc.cur = << >> THEN acc.toks ELSE Append(acc.toks, StrTok(acc.cur))

Tokens(path) == TokFlush(FoldL(TokStep, [toks |-> << >>, cur |-> << >>], path))

TokNames(toks) == [i \in 1..Len(toks) |-> toks[i].name]

\* _update: route_tokens.filter(token => typeof token !== 'string').map(token => token.name)
RouteParams(path) == TokNames(SelectSeq(Tokens(path), LAMBDA t : ~t.str))

\* The regular expression pathToRegexp(r) builds (start, end, not strict):
\* literals match themselves, a parameter one or more non-"/" characters, and
\* one trailing "/" is optional.
RECURSIVE RegexTest(_, _)
RegexTest(pat, path) ==
    IF pat = << >> THEN path = << >> \/ path = <<"/">>
    ELSE IF Head(pat) \in ParamAtoms
         THEN \E n \in 1..Len(path) :
                 /\ \A i \in 1..n : path[i] # "/"
                 /\ RegexTest(Tail(pat), SubSeq(path, n + 1, Len(path)))
         ELSE path # << >> /\ Head(path) = Head(pat) /\ RegexTest(Tail(pat), Tail(path))

\* find-my-way: does the route pattern match the request path (a parameter
\* is one or more non-"/" characters, "*" is the rest of the path).
RECURSIVE RouteMatches(_, _)
RouteMatches(pat, path) ==
    IF pat = << >> THEN path = << >>
    ELSE IF Head(pat) = "*" THEN TRUE
    ELSE IF Head(pat) \in ParamAtoms
         THEN \E n \in 1..Len(path) :
                 /\ \A i \in 1..n : path[i] # "/"
                 /\ RouteMatches(Tail(pat), SubSeq(path, n + 1, Len(path)))
         ELSE path # << >> /\ Head(path) = Head(pat) /\ RouteMatches(Tail(pat), Tail(path))

\* The test the composer applies to a filtered middleware (composer.js).
FilterPasses(e, path) ==
    \/ ~e.filtered
    \/ IF e.rich THEN RegexTest(e.test, path) ELSE StartsWith(path, e.test)

\* ------------------------------------------------------------------ hosts
\* Hosts are the literals "x.h" and "y.h" and the patterns ":s.h" (a
\* variable named s) and "(.*).h" (an unnamed group, which path-to-regexp
\* names with the number 0); "" is no host.  A name that is a number is
\* written "#0", the string of the same digits "0".

\* _update: host_info.rich = tokens.length > 1 || typeof tokens[0] != 'string'
HostRich(host) == host \in {":s.h", "(.*).h"}

\* _update: host_info.vars[i].name, from pathToRegexp.tokensToRegExp.
HostVars(host) ==
    CASE host = ":s.h" -> <<"s">> [] host = "(.*).h" -> <<"#0">> [] OTHER -> << >>

\* String.prototype.toLowerCase on a host: "X.H" is the one host written in
\* upper case.
Lower(host) == IF host = "X.H" THEN "x.h" ELSE host

\* host_info.matcher (sensitive: false): either pattern takes one label
\* before ".h".
HostTest(pattern, host) == Lower(host) \in {"x.h", "y.h"}

\* Property access with a name: a number is converted to its string.
PropKey(name) == IF name = "#0" THEN "0" ELSE name

\* The host a label gives under ".h".
UnderH(label) == CASE label = "x" -> "x.h" [] label = "y" -> "y.h" [] OTHER -> ""

\* host_info.reverse = pathToRegexp.compile(route_host): the pattern with the
\* value params holds for its variable; "" when params holds none (the
\* compiled function throws a TypeError).
HostReverse(host, params) ==
    IF Has(params, PropKey(HostVars(host)[1]))
    THEN UnderH(Get(params, PropKey(HostVars(host)[1])))
    ELSE ""

\* ------------------------------------------------------------------ state

Routers == {"r0", "r1", "r2"}

VARIABLES
    opts,               \* this.opts of every router (set by the constructor)
    routes,             \* this.routes: [paths, ms], ms an object method -> {options, middleware}
    middlewares,        \* this.middlewares: [paths, mids]
    paramwares,         \* this.paramwares: param -> wrapped handlers
    datawares,          \* this.datawares: key -> constructors
    dataware_sort,      \* this.dataware_sort: key -> <<weight>>
    dataware_default,   \* this.dataware_default: key -> value
    dataware_exclusive, \* this.dataware_exclusive, in insertion order
    nested,             \* this._nested: mount path -> routers
    parents,            \* this._parents
    live,               \* this._live
    m_routes,           \* this._routes: host -> path -> {ms, pware}
    m_middlewares,      \* this._middlewares: path -> handlers
    m_named,            \* this._named: dotted name -> route description
    m_routers,          \* this._routers: host -> find-my-way table (path -> store)
    fnsort,             \* the `sort` property of the shared handler functions
    failed,             \* the last registration call threw
    req,                \* the request dispatch was last called with, and how far it got
    urls,               \* the URL helper pool of middleware(): helpers acquired and released
    urlFor,             \* ctx.urlFor of that request is set
    inst,               \* the Composer instance of the running invocation of a composed chain
    pooled,             \* a composed function at run time: its pool of Composer instances,
                        \* its invocations and the handlers they started
    url                 \* what the last call of urlFor gave

cfgvars == <<opts, routes, middlewares, paramwares, datawares, dataware_sort,
             dataware_default, dataware_exclusive, nested, parents, live,
             m_routes, m_middlewares, m_named, m_routers, fnsort, failed>>

runvars == <<req, urls, urlFor, inst, pooled, url>>

vars == <<cfgvars, runvars>>

\* How many _update calls deep the engine's call stack lets _updateParents
\* go before it throws a RangeError; a tree of the three routers needs two.
MaxStack == 2

\* The state a registration call works on; err: the call threw; stack: what
\* is left of the call stack.
World == [opts |-> opts, routes |-> routes, middlewares |-> middlewares,
          paramwares |-> paramwares, datawares |-> datawares,
          dataware_sort |-> dataware_sort, dataware_default |-> dataware_default,
          dataware_exclusive |-> dataware_exclusive, nested |-> nested,
          parents |-> parents, live |-> live, m_routes |-> m_routes,
          m_middlewares |-> m_middlewares, m_named |-> m_named,
          m_routers |-> m_routers, fnsort |-> fnsort, err |-> FALSE,
          stack |-> MaxStack]

Install(W) ==
    /\ opts' = W.opts
    /\ routes' = W.routes
    /\ middlewares' = W.middlewares
    /\ paramwares' = W.paramwares
    /\ datawares' = W.datawares
    /\ dataware_sort' = W.dataware_sort
    /\ dataware_default' = W.dataware_default
    /\ dataware_exclusive' = W.dataware_exclusive
    /\ nested' = W.nested
    /\ parents' = W.parents
    /\ live' = W.live
    /\ m_routes' = W.m_routes
    /\ m_middlewares' = W.m_middlewares
    /\ m_named' = W.m_named
    /\ m_routers' = W.m_routers
    /\ fnsort' = W.fnsort
    /\ failed' = W.err
    /\ UNCHANGED runvars

\* ------------------------------------------------------------------ dataware constructors

\* The functions some constructors hand out on every call (one function
\* object, so its `sort` property lives as long as the program).
SharedFns == {"f"}

MountSort == 0 - 10

\* What a constructor returns for a data value: the functions it yields, each
\* a fresh function object or a shared one, with the `sort` property it
\* carries when it is returned (a shared one carries fnsort).
\*   Mount  lib/mount.js: one fresh handler
\*   cA     data => handler             (one fresh handler per call)
\*   cB     data => handler             (another such constructor)
\*   cS     () => f                     (the same function f on every call)
\*   cG     data => g, g.sort = 3       (a fresh handler with its own weight)
\*   cZ     data => z, z.sort = 0       (a fresh handler with its own weight 0)
\*   cN     () => null
\*   cArr   data => [h1, null, h2], h2.sort = 0 - 1
CtorOut(c, value) ==
    CASE c = "cS"   -> <<[fn |-> Fn("dw", "f", 0, ""), shared |-> TRUE, sort |-> << >>]>>
      [] c = "cG"   -> <<[fn |-> Fn("dw", "cG", 0, value), shared |-> FALSE, sort |-> <<3>>]>>
      [] c = "cZ"   -> <<[fn |-> Fn("dw", "cZ", 0, value), shared |-> FALSE, sort |-> <<0>>]>>
      [] c = "cN"   -> << >>
      [] c = "cArr" -> <<[fn |-> Fn("dw", "cArr", 1, value), shared |-> FALSE, sort |-> << >>],
                         [fn |-> Fn("dw", "cArr", 2, value), shared |-> FALSE, sort |-> <<0 - 1>>]>>
      [] OTHER      -> <<[fn |-> Fn("dw", c, 0, value), shared |-> FALSE, sort |-> << >>]>>

Falsy(s) == s = << >> \/ s = <<0>>

SortKey(s) == IF s = << >> THEN 0 ELSE s[1]

\* Array.prototype.sort with a comparator a - b: stable, ascending.
InsertAt(out, n, x) == SubSeq(out, 1, n) \o <<x>> \o SubSeq(out, n + 1, Len(out))

StableSort(s, Key(_)) ==
    FoldL(LAMBDA out, x :
              InsertAt(out, Cardinality({i \in 1..Len(out) : Key(out[i]) <= Key(x)}), x),
          << >>, s)

\* A faulty variant of DataValue: d.options[dkey] || matching_defaults[dkey],
\* which lets a falsy option value fall through to the default.
DataValueTruthy(options, defs, key) ==
    IF Has(options, key) /\ Get(options, key) \notin {"", "0"} THEN Get(options, key)
    ELSE GetOr(defs, key, "")

\* _update: the data a constructor is called with,
\* has(d.options, dkey) ? d.options[dkey] : matching_defaults[dkey].
DataValue(options, defs, key) ==
    IF Has(options, key) THEN Get(options, key) ELSE GetOr(defs, key, "")

\* _update: the defaults of this router fill the keys the route data (the
\* routers below) has not set.
MergeDefaults(defaults, own) ==
    FoldL(LAMBDA m, x : IF Has(m, x.k) THEN m ELSE Append(m, x), defaults, own)

\* A faulty variant of Applies: the test without d.exclusive.includes(dkey).
AppliesDespiteExclusive(d, defs, key) == Has(d.options, key) \/ Has(defs, key)

\* _update: does the dataware of this router for a key apply to a route.
Applies(d, defs, key) ==
    key \notin Elems(d.exclusive) /\ (Has(d.options, key) \/ Has(defs, key))

\* _update, `if ( live )`: call the queued constructors, give every yielded
\* function without a (truthy) sort the weight of its key, sort by weight.
\* `if ( ! thing.sort ) thing.sort = sort; dware.push(thing)` for one yielded
\* function t with the `sort` property cur, under the weight of its key.
PushThing(a, t, cur, weight) ==
    [heap |-> IF t.shared /\ Falsy(cur) THEN [a.heap EXCEPT ![t.fn.id] = weight] ELSE a.heap,
     list |-> Append(a.list, [fn |-> t.fn, shared |-> t.shared,
                              sort |-> IF Falsy(cur) THEN weight ELSE cur])]

\* The loop over matching_dware: every queued constructor is called.
CallCtors(d, defs, heap) ==
    FoldL(LAMBDA acc, e :
              FoldL(LAMBDA a, t :
                        PushThing(a, t, IF t.shared THEN a.heap[t.fn.id] ELSE t.sort, e.sort),
                    acc, CtorOut(e.ctor, DataValue(d.options, defs, e.key))),
          [heap |-> heap, list |-> << >>], d.dataware)

FnsOf(list) == [i \in 1..Len(list) |-> list[i].fn]

\* dware.sort((a, b) => (a.sort || 0) - (b.sort || 0)), reading the `sort`
\* property every function has when the loop is over.
SortDware(r) ==
    [heap |-> r.heap,
     fns  |-> FnsOf(StableSort(r.list, LAMBDA t : SortKey(IF t.shared THEN r.heap[t.fn.id]
                                                          ELSE t.sort)))]

BuildDware(d, defs, heap) == SortDware(CallCtors(d, defs, heap))

\* ------------------------------------------------------------------ composer.js: compose

Plain(fn) == [filtered |-> FALSE, rich |-> FALSE, test |-> << >>, fn |-> fn]

\* A faulty variant of ComposeOrder: the second and third section swapped.
ComposeSwapped(md, first, second, own) ==
    md \o [i \in 1..Len(second) |-> Plain(second[i])]
       \o [i \in 1..Len(first) |-> Plain(first[i])]
       \o [i \in 1..Len(own) |-> Plain(own[i])]

\* compose(...input): the sections flattened in order; a function becomes an
\* unfiltered entry, a FilterableMiddleware is kept as it is.
ComposeOrder(md, first, second, own) ==
    md \o [i \in 1..Len(first) |-> Plain(first[i])]
       \o [i \in 1..Len(second) |-> Plain(second[i])]
       \o [i \in 1..Len(own) |-> Plain(own[i])]

\* ------------------------------------------------------------------ router.js: merging

MergeMiddlewares(output, prefix, mws) ==
    FoldL(LAMBDA out, data :
              FoldL(LAMBDA o, p : Put(o, prefix \o p, GetOr(o, prefix \o p, << >>) \o data.mids),
                    out, data.paths),
          output, mws)

\* Object.entries(router._middlewares), in the shape of raw registrations.
AsMiddlewares(obj) == [i \in 1..Len(obj) |-> [paths |-> <<obj[i].k>>, mids |-> obj[i].v]]

\* A faulty variant of Copied: Object.assign({}, rdata, {name_prefix}), which
\* leaves the three containers of a method those of the table merged in.
CopiedShallow == {"_paramware"}

\* mergeRoutes: the containers of a merged route that are new objects
\* (Array.from(rdata.dataware), Array.from(rdata.exclusive),
\* Object.assign({}, rdata.defaults), Array.from(rdata) for _paramware), so
\* that what _update pushes into them stays in the table it builds.
Copied == {"dataware", "exclusive", "defaults", "_paramware"}

\* The route data mergeRoutes stores for one method: a copy of rdata with the
\* name prefix extended and the dataware, exclusive and defaults containers copied.
MergeEntry(rdata, name) ==
    [options     |-> rdata.options,
     middleware  |-> rdata.middleware,
     name_prefix |-> IF name # "" THEN <<name>> \o rdata.name_prefix ELSE rdata.name_prefix,
     dataware    |-> rdata.dataware,
     exclusive   |-> rdata.exclusive,
     defaults    |-> rdata.defaults]

\* routes: a sequence of [k |-> host, v |-> entries], entries a sequence of
\* [paths, ms, hasPw, pware] (hasPw: the entry has a _paramware key).
\* A merge that keeps the entry a method already has.
MergeDataKeepFirst(old, name, data) ==
    [ms    |-> FoldL(LAMBDA m, e : IF Has(m, e.k) THEN m ELSE Put(m, e.k, MergeEntry(e.v, name)),
                     old.ms, data.ms),
     pware |-> IF data.hasPw THEN data.pware ELSE old.pware]

MergeData(old, name, data) ==
    [ms    |-> FoldL(LAMBDA m, e : Put(m, e.k, MergeEntry(e.v, name)), old.ms, data.ms),
     pware |-> IF data.hasPw THEN data.pware ELSE old.pware]

MergePath(hosted, name, path, data) ==
    Put(hosted, path, MergeData(GetOr(hosted, path, [ms |-> << >>, pware |-> << >>]),
                                name, data))

MergeHost(out, use_host, name, prefix, entries) ==
    FoldL(LAMBDA o, data :
              FoldL(LAMBDA o2, p :
                        Put(o2, use_host, MergePath(Get(o2, use_host), name, prefix \o p, data)),
                    o, data.paths),
          Put(out, use_host, GetOr(out, use_host, << >>)), entries)

MergeRoutes(output, host, name, prefix, rts) ==
    FoldL(LAMBDA out, hd : MergeHost(out, IF hd.k # "" THEN hd.k ELSE host, name, prefix, hd.v),
          output, rts)

\* this.routes of a router, as mergeRoutes reads it: [[host, routes]].
OwnRoutes(W, r) ==
    <<[k |-> W.opts[r].host,
       v |-> [i \in 1..Len(W.routes[r]) |->
                [paths |-> W.routes[r][i].paths,
                 ms    |-> [j \in 1..Len(W.routes[r][i].ms) |->
                              [k |-> W.routes[r][i].ms[j].k,
                               v |-> [options     |-> W.routes[r][i].ms[j].v.options,
                                      middleware  |-> W.routes[r][i].ms[j].v.middleware,
                                      name_prefix |-> << >>,
                                      dataware    |-> << >>,
                                      exclusive   |-> << >>,
                                      defaults    |-> << >>]]],
                 hasPw |-> FALSE,
                 pware |-> << >>]]]>>

\* Array.from(router._routes.entries()), in the same shape.
NestedRoutes(W, c) ==
    [h \in 1..Len(W.m_routes[c]) |->
        [k |-> W.m_routes[c][h].k,
         v |-> [i \in 1..Len(W.m_routes[c][h].v) |->
                  [paths |-> <<W.m_routes[c][h].v[i].k>>,
                   ms    |-> W.m_routes[c][h].v[i].v.ms,
                   hasPw |-> TRUE,
                   pware |-> W.m_routes[c][h].v[i].v.pware]]]]

\* ------------------------------------------------------------------ router.js: middleware matching

CouldMatch(tokens, middle_tokens) ==
    IF tokens = << >> THEN FALSE
    ELSE IF tokens[1].str /\ middle_tokens # << >> /\ middle_tokens[1].str
         THEN \/ tokens[1].s = middle_tokens[1].s
              \/ StartsWith(tokens[1].s, Append(middle_tokens[1].s, "/"))
         ELSE TRUE

MatchMiddleware(path, mws) ==
    FoldL(LAMBDA out, e :
              IF CouldMatch(Tokens(path), Tokens(e.k))
              THEN out \o [i \in 1..Len(e.v) |->
                             [filtered |-> e.k # << >>,
                              rich     |-> e.k # << >> /\ Elems(e.k) \cap ParamAtoms # {},
                              test     |-> e.k,
                              fn       |-> e.v[i]]]
              ELSE out,
          << >>, mws)

\* ------------------------------------------------------------------ router.js: _update

\* _update, lines 381-386: the paramware of a route is what the routers below
\* left in _paramware, then this router's handlers for each declared parameter.
RouteParamware(W, r, data, route) ==
    data.pware \o FoldL(LAMBDA l, nm : l \o GetOr(W.paramwares[r], nm, << >>),
                        << >>, RouteParams(route))

\* _update, lines 390-400: the methods whose options carry a host, and the
\* host the route is served under.
HostedMethods(data) == SelectSeq(data.ms, LAMBDA e : GetOr(e.v.options, "host", "") # "")

RouteHost(hosted, hostKey) ==
    IF hosted # << >> THEN Get(hosted[1].v.options, "host") ELSE hostKey

\* What the route loop knows about a route before it looks at its methods.
RouteInfo(W, r, acc, hostKey, route, data) ==
    [route  |-> route,
     params |-> RouteParams(route),
     pware  |-> RouteParamware(W, r, data, route),
     md     |-> MatchMiddleware(route, acc.mw),
     hosted |-> Len(HostedMethods(data)),
     host   |-> RouteHost(HostedMethods(data), hostKey)]

\* A faulty variant of QueueDataware: the exclusive keys of this router are
\* pushed before its own constructors are queued.
QueueDatawareShielded(W, r, d, defs) ==
    d.dataware \o
    FoldL(LAMBDA l, x :
              IF Applies([d EXCEPT !.exclusive = @ \o W.dataware_exclusive[r]], defs, x.k)
              THEN l \o [i \in 1..Len(x.v) |->
                           [key |-> x.k, ctor |-> x.v[i],
                            sort |-> GetOr(W.dataware_sort[r], x.k, << >>)]]
              ELSE l,
          << >>, W.datawares[r])

\* A faulty variant of QueueDataware: what the routers below queued is queued
\* once more at every router the route is merged into.
QueueDatawareAgain(W, r, d, defs) ==
    d.dataware \o d.dataware \o
    FoldL(LAMBDA l, x :
              IF Applies(d, defs, x.k)
              THEN l \o [i \in 1..Len(x.v) |->
                           [key |-> x.k, ctor |-> x.v[i],
                            sort |-> GetOr(W.dataware_sort[r], x.k, << >>)]]
              ELSE l,
          << >>, W.datawares[r])

\* _update, lines 437-442: the constructors of this router queued behind the
\* ones the routers below queued.
QueueDataware(W, r, d, defs) ==
    d.dataware \o
    FoldL(LAMBDA l, x :
              IF Applies(d, defs, x.k)
              THEN l \o [i \in 1..Len(x.v) |->
                           [key |-> x.k, ctor |-> x.v[i],
                            sort |-> GetOr(W.dataware_sort[r], x.k, << >>)]]
              ELSE l,
          << >>, W.datawares[r])

\* A faulty variant of RouteData: the exclusive keys of the router are not
\* pushed.
RouteDataOpen(W, r, d, defs) ==
    [d EXCEPT !.defaults  = defs,
              !.dataware  = QueueDataware(W, r, d, defs)]

\* _update, lines 431-445: the route data of one method after this router
\* added its defaults, its dataware and its exclusive keys.
RouteData(W, r, d, defs) ==
    [d EXCEPT !.defaults  = defs,
              !.dataware  = QueueDataware(W, r, d, defs),
              !.exclusive = d.exclusive \o W.dataware_exclusive[r]]

\* _update, lines 485-489.
Composed(W, r, info, dware, own) ==
    IF W.opts[r].paramwareBeforeDataware
    THEN ComposeOrder(info.md, info.pware, dware, own)
    ELSE ComposeOrder(info.md, dware, info.pware, own)

\* _update, lines 423-429 and 447-490, for one method e of a route: a is
\* what the method loop built so far, d1 the merged route data, built the
\* dataware handlers (called only when the router is live).
MethodDone(W, r, info, a, e, d1, built) ==
    [ms    |-> Append(a.ms, [k |-> e.k, v |-> d1]),
     named |-> IF GetOr(e.v.options, "name", "") # ""
               THEN Put(a.named, e.v.name_prefix \o <<Get(e.v.options, "name")>>,
                        [params |-> info.params, path |-> info.route, host |-> info.host])
               ELSE a.named,
     heap  |-> IF W.live[r] THEN built.heap ELSE a.heap,
     store |-> IF W.live[r]
               THEN Append(a.store, [k |-> e.k,
                                     v |-> [options     |-> e.v.options,
                                            name_prefix |-> e.v.name_prefix,
                                            fn |-> Composed(W, r, info, built.fns,
                                                            e.v.middleware)]])
               ELSE a.store]

MethodBuild(W, r, info, a, e, d1) ==
    MethodDone(W, r, info, a, e, d1, BuildDware(d1, d1.defaults, a.heap))

ProcessMethod(W, r, info, a, e) ==
    MethodBuild(W, r, info, a, e,
                RouteData(W, r, e.v, MergeDefaults(e.v.defaults, W.dataware_default[r])))

\* The end of one iteration of the route loop: the merged entry is stored and
\* (live) the route registered with the find-my-way table of its host.
RouteDone(W, r, acc, hi, pi, info, m) ==
    [acc EXCEPT !.rt[hi].v[pi].v = [ms |-> m.ms, pware |-> info.pware],
                !.named   = m.named,
                !.routers = IF W.live[r]
                            THEN Put(@, info.host, Put(GetOr(@, info.host, << >>),
                                                       info.route, m.store))
                            ELSE @,
                !.heap    = m.heap]

\* A second method with a host makes _update throw ("conflicting hosts");
\* the paramware was already pushed.
RouteWith(W, r, acc, hi, pi, info) ==
    IF info.hosted > 1
    THEN [acc EXCEPT !.rt[hi].v[pi].v.pware = info.pware, !.err = TRUE]
    ELSE RouteDone(W, r, acc, hi, pi, info,
                   FoldL(LAMBDA a, e : ProcessMethod(W, r, info, a, e),
                         [ms |-> << >>, named |-> acc.named, heap |-> acc.heap,
                          store |-> << >>],
                         acc.rt[hi].v[pi].v.ms))

\* One iteration of the route loop of _update, for the route at position pi
\* of host hi of the merged table acc.rt.
ProcessRoute(W, r, acc, hi, pi) ==
    RouteWith(W, r, acc, hi, pi,
              RouteInfo(W, r, acc, acc.rt[hi].k, acc.rt[hi].v[pi].k, acc.rt[hi].v[pi].v))

\* _update, lines 344-345: the router's own registrations.
MergeOwn(W, r) ==
    [rt |-> MergeRoutes(<< >>, W.opts[r].host, W.opts[r].name, W.opts[r].prefix,
                        OwnRoutes(W, r)),
     mw |-> MergeMiddlewares(<< >>, W.opts[r].prefix, W.middlewares[r])]

\* _update, lines 347-353: the merged views of the nested routers.
MergeNested(W, r, m0) ==
    FoldL(LAMBDA a, e :
              FoldL(LAMBDA b, c :
                        [rt |-> MergeRoutes(b.rt, W.opts[r].host, W.opts[r].name,
                                            W.opts[r].prefix \o e.k, NestedRoutes(W, c)),
                         mw |-> MergeMiddlewares(b.mw, W.opts[r].prefix \o e.k,
                                                 AsMiddlewares(W.m_middlewares[c]))],
                    a, e.v),
          m0, W.nested[r])

\* The (host, route) positions of a merged table, in iteration order.
Positions(rt) ==
    FoldL(LAMBDA l, hi : l \o [pi \in 1..Len(rt[hi].v) |-> <<hi, pi>>],
          << >>, [hi \in 1..Len(rt) |-> hi])

\* _update, lines 367-510: the route loop; a throw ends it.
ProcessRoutes(W, r, m) ==
    FoldL(LAMBDA acc, hp : IF acc.err THEN acc ELSE ProcessRoute(W, r, acc, hp[1], hp[2]),
          [rt |-> m.rt, mw |-> m.mw, named |-> << >>,
           routers |-> IF W.live[r] THEN << >> ELSE W.m_routers[r],
           heap |-> W.fnsort, err |-> FALSE],
          Positions(m.rt))

StoreTables(W, r, res) ==
    [W EXCEPT !.m_routes[r] = res.rt,
              !.m_middlewares[r] = res.mw,
              !.m_named[r] = res.named,
              !.m_routers[r] = res.routers,
              !.fnsort = res.heap,
              !.err = res.err]

\* A route of a nested router after the route loop of the router it is merged
\* into: pd is what that router holds for the path, cd what the nested router
\* holds.  A container that was not copied is one object in both tables, and
\* holds what the loop pushed.
ThroughMethod(pd, e) ==
    IF Has(pd.ms, e.k) /\ Get(pd.ms, e.k).middleware = e.v.middleware
    THEN [k |-> e.k,
          v |-> [e.v EXCEPT
                   !.dataware  = IF "dataware" \in Copied THEN @
                                 ELSE Get(pd.ms, e.k).dataware,
                   !.exclusive = IF "exclusive" \in Copied THEN @
                                 ELSE Get(pd.ms, e.k).exclusive,
                   !.defaults  = IF "defaults" \in Copied THEN @
                                 ELSE Get(pd.ms, e.k).defaults]]
    ELSE e

ThroughRoute(pd, cd) ==
    [ms    |-> [j \in 1..Len(cd.ms) |-> ThroughMethod(pd, cd.ms[j])],
     pware |-> IF "_paramware" \in Copied THEN cd.pware ELSE pd.pware]

\* router._routes of the router c nested in r at prefix, after the route loop
\* of r left the merged table rt.
Through(W, r, rt, prefix, c) ==
    [h \in 1..Len(W.m_routes[c]) |->
        [k |-> W.m_routes[c][h].k,
         v |-> [i \in 1..Len(W.m_routes[c][h].v) |->
                  [k |-> W.m_routes[c][h].v[i].k,
                   v |-> ThroughRoute(
                             Get(Get(rt, IF W.m_routes[c][h].k # "" THEN W.m_routes[c][h].k
                                         ELSE W.opts[r].host),
                                 prefix \o W.m_routes[c][h].v[i].k),
                             W.m_routes[c][h].v[i].v)]]]]

\* What the route loop of r did to the tables of the routers nested in r:
\* nothing when every container was copied.
WriteThrough(W, r, rt) ==
    IF {"dataware", "exclusive", "defaults", "_paramware"} \subseteq Copied THEN W
    ELSE FoldL(LAMBDA V, e :
                   FoldL(LAMBDA U, c :
                             [U EXCEPT !.m_routes[c] =
                                           Through(U, r, rt, W.opts[r].prefix \o e.k, c)],
                         V, e.v),
               W, W.nested[r])

Rebuilt(W, r, res) == StoreTables(WriteThrough(W, r, res.rt), r, res)

\* Router.prototype._update without the final _updateParents().
UpdateOne(W, r) == Rebuilt(W, r, ProcessRoutes(W, r, MergeNested(W, r, MergeOwn(W, r))))

\* Router.prototype._update: rebuild this router, then every parent
\* (_updateParents), depth first; a throw ends the whole call. Nothing stops
\* the recursion when a router is above itself: it goes on until the call
\* stack is used up, and the RangeError ends the call.
RECURSIVE Update(_, _)
UpdateParents(W, r) ==
    IF W.err THEN W
    ELSE FoldL(LAMBDA V, p :
                   IF V.err THEN V
                   ELSE IF W.stack = 0 THEN [V EXCEPT !.err = TRUE]
                   ELSE [Update([V EXCEPT !.stack = W.stack - 1], p) EXCEPT !.stack = W.stack],
               W, W.parents[r])

Update(W, r) == UpdateParents(UpdateOne(W, r), r)

\* ------------------------------------------------------------------ router.js: the constructor

\* new Router(opts): the built-in mount dataware is registered, weighted and
\* made exclusive unless opts.mountMiddleware is false.
NewOpts(prefix, name, host, pbd, mount, h405, hOptions) ==
    [prefix |-> prefix, name |-> name, host |-> host, paramwareBeforeDataware |-> pbd,
     mountMiddleware |-> mount, handle405 |-> h405, handleOptions |-> hOptions]

InitWorld(o) ==
    [opts |-> o,
     routes |-> [r \in Routers |-> << >>],
     middlewares |-> [r \in Routers |-> << >>],
     paramwares |-> [r \in Routers |-> << >>],
     datawares |-> [r \in Routers |->
                      IF o[r].mountMiddleware THEN <<[k |-> "mount", v |-> <<"Mount">>]>>
                      ELSE << >>],
     dataware_sort |-> [r \in Routers |->
                          IF o[r].mountMiddleware THEN <<[k |-> "mount", v |-> <<MountSort>>]>>
                          ELSE << >>],
     dataware_default |-> [r \in Routers |-> << >>],
     dataware_exclusive |-> [r \in Routers |->
                               IF o[r].mountMiddleware THEN <<"mount">> ELSE << >>],
     nested |-> [r \in Routers |-> << >>],
     parents |-> [r \in Routers |-> << >>],
     live |-> [r \in Routers |-> FALSE],
     m_routes |-> [r \in Routers |-> << >>],
     m_middlewares |-> [r \in Routers |-> << >>],
     m_named |-> [r \in Routers |-> << >>],
     m_routers |-> [r \in Routers |-> << >>],
     fnsort |-> [f \in SharedFns |-> << >>],
     err |-> FALSE]

\* ctx.state._route of a request no route serves.
NoData == [options |-> << >>, name_prefix |-> << >>, fn |-> << >>]

\* No request has been dispatched yet.
NoRequest ==
    [phase |-> "idle", method |-> "", path |-> << >>, branch |-> "", allow |-> << >>,
     nexts |-> 0, host |-> "", name_prefix |-> << >>, route |-> "", table |-> "",
     data |-> NoData]

\* A Composer instance at rest in its pool: `this.i = null`, no context.
NoInvocation ==
    [active |-> FALSE, chain |-> << >>, path |-> << >>, i |-> 0 - 1,
     started |-> << >>, calls |-> << >>, returned |-> {}, last |-> ""]

\* No composed function has been invoked: reusify(Composer) holds the one
\* instance it constructs at once (`this.i = null`, no context, no next).
NoRuntime ==
    [chain |-> << >>,
     objs  |-> <<[i |-> 0 - 1, context |-> 0, next |-> 0]>>,
     free  |-> <<1>>,
     invs  |-> << >>,
     acts  |-> << >>,
     ev    |-> [kind |-> "", by |-> 0, ctx |-> 0, obj |-> 0]]

\* urlFor has not been called.
NoUrl == [called |-> FALSE]

Constructed(o) ==
    /\ opts = InitWorld(o).opts
    /\ routes = InitWorld(o).routes
    /\ middlewares = InitWorld(o).middlewares
    /\ paramwares = InitWorld(o).paramwares
    /\ datawares = InitWorld(o).datawares
    /\ dataware_sort = InitWorld(o).dataware_sort
    /\ dataware_default = InitWorld(o).dataware_default
    /\ dataware_exclusive = InitWorld(o).dataware_exclusive
    /\ nested = InitWorld(o).nested
    /\ parents = InitWorld(o).parents
    /\ live = InitWorld(o).live
    /\ m_routes = InitWorld(o).m_routes
    /\ m_middlewares = InitWorld(o).m_middlewares
    /\ m_named = InitWorld(o).m_named
    /\ m_routers = InitWorld(o).m_routers
    /\ fnsort = InitWorld(o).fnsort
    /\ failed = FALSE
    /\ req = NoRequest
    /\ urls = [acquired |-> 0, released |-> 0]
    /\ urlFor = FALSE
    /\ inst = NoInvocation
    /\ pooled = NoRuntime
    /\ url = NoUrl

\* ------------------------------------------------------------------ router.js: registration
\* Each registration method is an operator from the state before the call to
\* the state after it (the trailing this._update() included) and an action
\* that installs that state.

\* Router.prototype.register(methods, path, options, ...middleware)
DoRegister(W, r, methods, paths, options, middleware) ==
    LET route == FoldL(LAMBDA m, meth : Put(m, meth, [options |-> options,
                                                      middleware |-> middleware]),
                       << >>, methods)
    IN  Update([W EXCEPT !.routes[r] = Append(@, [paths |-> paths, ms |-> route])], r)

\* Router.prototype[method](name, path, options, ...middleware): options.name
\* is set to the leading name (null when there is none), then register.
DoVerb(W, r, method, name, paths, options, middleware) ==
    DoRegister(W, r, <<method>>, paths, Put(options, "name", name), middleware)

Verb(r, method, name, paths, options, middleware) ==
    Install(DoVerb(World, r, method, name, paths, options, middleware))

\* Router.prototype._nest(path, router)
NestIn(W, r, paths, c) ==
    LET n == FoldL(LAMBDA o, p : IF c \in Elems(GetOr(o, p, << >>)) THEN o
                                 ELSE Put(o, p, Append(GetOr(o, p, << >>), c)),
                   W.nested[r], paths)
    IN  [W EXCEPT !.nested[r] = n,
                  !.parents[c] = IF r \in Elems(@) THEN @ ELSE Append(@, r)]

\* Router.prototype.use(path, ...middleware): routers among the arguments are
\* nested, the functions registered as one middleware entry.
DoUse(W, r, paths, mids, routers) ==
    LET W1 == FoldL(LAMBDA V, c : NestIn(V, r, paths, c), W, routers)
        W2 == IF mids # << >>
              THEN [W1 EXCEPT !.middlewares[r] = Append(@, [paths |-> paths, mids |-> mids])]
              ELSE W1
    IN  Update(W2, r)

Use(r, paths, mids, routers) == Install(DoUse(World, r, paths, mids, routers))

\* Router.prototype.mount, the path.map: a path ending in '/' gets '*', one
\* not ending in '/*' gets '/*'.
MountPath(p) ==
    IF p # << >> /\ p[Len(p)] = "/" THEN Append(p, "*")
    ELSE IF Len(p) >= 2 /\ SubSeq(p, Len(p) - 1, Len(p)) = <<"/", "*">> THEN p
    ELSE p \o <<"/", "*">>

\* Router.prototype.mount(path, options, ...middleware): the route is
\* registered for 'all' with options.mount = '*'.
DoMount(W, r, paths, options, middleware) ==
    DoRegister(W, r, <<"all">>, [i \in 1..Len(paths) |-> MountPath(paths[i])],
               Put(options, "mount", "*"), middleware)

Mount(r, paths, options, middleware) == Install(DoMount(World, r, paths, options, middleware))

\* Router.prototype.nest(path, router)
DoNest(W, r, paths, c) == Update(NestIn(W, r, paths, c), r)

Nest(r, paths, c) == Install(DoNest(World, r, paths, c))

\* Router.prototype.useData(key, sort_value, ...constructor); sort is << >>
\* when the weight argument is omitted.
DoUseData(W, r, key, sort, ctors) ==
    Update([W EXCEPT !.dataware_sort[r] = IF sort # << >> THEN Put(@, key, sort) ELSE @,
                     !.datawares[r] = Put(@, key, GetOr(@, key, << >>) \o ctors)], r)

UseData(r, key, sort, ctors) == Install(DoUseData(World, r, key, sort, ctors))

\* Router.prototype.defaultData(key, value); value "" is undefined.
DoDefaultData(W, r, key, value) ==
    Update([W EXCEPT !.dataware_default[r] = IF value = "" THEN Del(@, key)
                                             ELSE Put(@, key, value)], r)

DefaultData(r, key, value) == Install(DoDefaultData(World, r, key, value))

\* Router.prototype.sortData(key, sort_value = 0)
DoSortData(W, r, key, weight) ==
    Update([W EXCEPT !.dataware_sort[r] = Put(@, key, <<weight>>)], r)

SortData(r, key, weight) == Install(DoSortData(World, r, key, weight))

\* Router.prototype.setDataExclusive(key, exclusive = true)
DoSetDataExclusive(W, r, key, exclusive) ==
    Update([W EXCEPT !.dataware_exclusive[r] =
                         IF exclusive
                         THEN (IF key \in Elems(@) THEN @ ELSE Append(@, key))
                         ELSE SelectSeq(@, LAMBDA x : x # key)], r)

SetDataExclusive(r, key, exclusive) == Install(DoSetDataExclusive(World, r, key, exclusive))

\* Router.prototype.param(param, ...middleware): each function is wrapped
\* into (ctx, next) => fn(ctx.params[param], ctx, next).
DoParam(W, r, param, fns) ==
    Update([W EXCEPT !.paramwares[r] =
                         Put(@, param, GetOr(@, param, << >>) \o
                                       [i \in 1..Len(fns) |->
                                          Fn("pw", fns[i].id, fns[i].n, param)])], r)

Param(r, param, fns) == Install(DoParam(World, r, param, fns))

\* Router.prototype.middleware(): the first call makes the router live and rebuilds.
DoMiddleware(W, r) == IF W.live[r] THEN W ELSE Update([W EXCEPT !.live[r] = TRUE], r)

Middleware(r) == ~live[r] /\ Install(DoMiddleware(World, r))

\* ------------------------------------------------------------------ measures and inputs

SumOver(S, F(_)) ==
    LET RECURSIVE sum(_)
        sum(T) == IF T = {} THEN 0
                  ELSE LET x == CHOOSE y \in T : TRUE IN F(x) + sum(T \ {x})
    IN  sum(S)

\* The constructors registered by useData (the built-in mount is not counted).
UserCtors(r) ==
    FoldL(LAMBDA n, e : IF e.k = "mount" THEN n ELSE n + Len(e.v), 0, datawares[r])

\* How many registrations the tree holds.
Regs ==
    SumOver(Routers, LAMBDA r :
        Len(routes[r]) + Len(middlewares[r]) + Len(dataware_default[r])
        + UserCtors(r) + Len(SelectSeq(dataware_exclusive[r], LAMBDA x : x # "mount"))
        + FoldL(LAMBDA n, e : n + Len(e.v), 0, paramwares[r])
        + FoldL(LAMBDA n, e : n + Len(e.v), 0, nested[r])
        + Len(SelectSeq(dataware_sort[r], LAMBDA e : e.k # "mount")))

DefaultOpts == NewOpts(<< >>, "", "", FALSE, TRUE, "default", "default")

Own(r) == Fn("own", r, 0, "")

PathA == <<"/", "a">>

PathAP == <<"/", "a", "/", ":p">>

\* ------------------------------------------------------------------ SpecData
\* Dataware, defaults and exclusive keys on the chain r0 > r1 > r2.

MaxRegsData == 5

MaxRoutesData == 1

MaxCtorsData == 1

DataKey == "cache"

CtorOf(r) == CASE r = "r0" -> "c0" [] r = "r1" -> "c1" [] OTHER -> "c2"

DefaultOf(r) == CASE r = "r0" -> "60" [] r = "r1" -> "61" [] OTHER -> "62"

ChainParent(c) == CASE c = "r1" -> "r0" [] OTHER -> "r1"

InitData == Constructed([r \in Routers |-> DefaultOpts])

DataUseData ==
    \E r \in Routers :
        /\ Regs < MaxRegsData
        /\ UserCtors(r) < MaxCtorsData
        /\ UseData(r, DataKey, << >>, <<CtorOf(r)>>)

DataDefaultData ==
    \E r \in Routers, set \in BOOLEAN :
        /\ set => Regs < MaxRegsData
        /\ DefaultData(r, DataKey, IF set THEN DefaultOf(r) ELSE "")

DataSetDataExclusive ==
    \E r \in Routers, b \in BOOLEAN :
        /\ b => Regs < MaxRegsData
        /\ SetDataExclusive(r, DataKey, b)

DataVerb ==
    \E r \in Routers, o \in {<< >>, <<[k |-> DataKey, v |-> "5"]>>, <<[k |-> DataKey, v |-> "0"]>>} :
        /\ Regs < MaxRegsData
        /\ Len(routes[r]) < MaxRoutesData
        /\ Verb(r, "get", "", <<PathA>>, o, <<Own(r)>>)

DataNest ==
    \E c \in {"r1", "r2"} :
        /\ Regs < MaxRegsData
        /\ Nest(ChainParent(c), <<PathA>>, c)

DataMiddleware == Middleware("r0")

NextData ==
    \/ DataUseData
    \/ DataDefaultData
    \/ DataSetDataExclusive
    \/ DataVerb
    \/ DataNest
    \/ DataMiddleware

SpecData == InitData /\ [][NextData]_vars

\* ------------------------------------------------------------------ reading the tables

Children(r) == UNION {Elems(nested[r][i].v) : i \in 1..Len(nested[r])}

RECURSIVE Subtree(_)
Subtree(r) == {r} \cup UNION {Subtree(c) : c \in Children(r)}

Ancestors(c) == {a \in Routers \ {c} : c \in Subtree(a)}

\* The routers from the owner of a route up to the root.
PathUp(owner) == {owner} \cup Ancestors(owner)

LiveRouters == {r \in Routers : live[r]}

\* Every (host, path, method) entry of the dispatch table of a router.
DispatchedIn(W, r) ==
    LET t == W.m_routers[r]
    IN  UNION {UNION {{[host |-> t[h].k, path |-> t[h].v[p].k,
                        method |-> t[h].v[p].v[m].k,
                        options |-> t[h].v[p].v[m].v.options,
                        name_prefix |-> t[h].v[p].v[m].v.name_prefix,
                        fn |-> t[h].v[p].v[m].v.fn]
                       : m \in 1..Len(t[h].v[p].v)}
                      : p \in 1..Len(t[h].v)}
               : h \in 1..Len(t)}

Dispatched(r) == DispatchedIn(World, r)

\* Every (host, path, method) entry of the merged route table of a router.
MergedIn(W, r) ==
    LET t == W.m_routes[r]
    IN  UNION {UNION {{[host |-> t[h].k, path |-> t[h].v[p].k,
                        method |-> t[h].v[p].v.ms[m].k,
                        d |-> t[h].v[p].v.ms[m].v,
                        pware |-> t[h].v[p].v.pware]
                       : m \in 1..Len(t[h].v[p].v.ms)}
                      : p \in 1..Len(t[h].v)}
               : h \in 1..Len(t)}

Merged(r) == MergedIn(World, r)

\* The functions of a composed chain, by kind.
ChainFns(fn) == [i \in 1..Len(fn) |-> fn[i].fn]

OwnerOf(fns) == (CHOOSE f \in Elems(fns) : f.kind = "own").id

Exclusive(r, key) == key \in Elems(dataware_exclusive[r])

HasCtor(r, key) == Has(datawares[r], key)

\* ------------------------------------------------------------------ C2

\* C2: once a key is exclusive on a router C, no constructor registered for
\* the key on a proper ancestor of C has a handler in the chain of a route
\* registered on C or below C, nor is it queued for such a route in the merged
\* table of any router, whatever the route's options and the defaults are.
ExclusiveShieldsSubtree ==
    \A C \in Routers :
        Exclusive(C, DataKey) =>
            \A N \in Ancestors(C) :
                /\ \A root \in LiveRouters : \A e \in Dispatched(root) :
                       OwnerOf(ChainFns(e.fn)) \in Subtree(C) =>
                           \A f \in Elems(ChainFns(e.fn)) :
                               ~(f.kind = "dw" /\ f.id = CtorOf(N))
                /\ \A x \in Routers : \A e \in Merged(x) :
                       OwnerOf(e.d.middleware) \in Subtree(C) =>
                           \A q \in Elems(e.d.dataware) :
                               ~(q.key = DataKey /\ q.ctor = CtorOf(N))

\* Reached: the key is exclusive on r1, the root has a constructor for it and
\* serves a route of r1's subtree whose options name the key.
ExclusiveShieldsSubtreeWitness ==
    /\ live["r0"]
    /\ Exclusive("r1", DataKey)
    /\ HasCtor("r0", DataKey)
    /\ \E e \in Dispatched("r0") :
           /\ OwnerOf(ChainFns(e.fn)) \in Subtree("r1")
           /\ Has(e.options, DataKey)

\* ------------------------------------------------------------------ C3

\* Is a default for the key set on one of the routers.
DefaultOn(S, key) == \E x \in S : Has(dataware_default[x], key)

\* The routers strictly below N on the path from the owner up to the root.
Below(owner, N) == (PathUp(owner) \cap Subtree(N)) \ {N}

\* C3 as claimed: the constructor of N for the key is in the chain of a route
\* iff the key is not exclusive strictly below N on the route's path and the
\* route's options have the key or a default is set on the owner or on any of
\* its ancestors.
AppliesIffOptionOrAnyDefault ==
    \A root \in LiveRouters : \A e \in Dispatched(root) :
        LET owner == OwnerOf(ChainFns(e.fn))
        IN  \A N \in PathUp(owner) \cap Subtree(root) :
                HasCtor(N, DataKey) =>
                    ((\E f \in Elems(ChainFns(e.fn)) : f.kind = "dw" /\ f.id = CtorOf(N))
                     <=> (/\ \A x \in Below(owner, N) : ~Exclusive(x, DataKey)
                          /\ \/ Has(e.options, DataKey)
                             \/ DefaultOn(PathUp(owner) \cap Subtree(root), DataKey)))

\* ------------------------------------------------------------------ C4

\* The default of the router nearest to the owner that sets one.
NearestDefault(owner, root, key) ==
    LET S == {x \in PathUp(owner) \cap Subtree(root) : Has(dataware_default[x], key)}
        n == CHOOSE x \in S : \A y \in S : x \in Subtree(y)
    IN  Get(dataware_default[n], key)

\* C4: a dataware constructor is called with the route's own option value
\* when the options have the key (falsy or not), else with the default of the
\* nearest router on the path from the owner to the root.
ValueIsOptionElseNearestDefault ==
    \A root \in LiveRouters : \A e \in Dispatched(root) :
        \A f \in Elems(ChainFns(e.fn)) :
            (f.kind = "dw" /\ f.id # "Mount") =>
                f.val = IF Has(e.options, DataKey) THEN Get(e.options, DataKey)
                        ELSE NearestDefault(OwnerOf(ChainFns(e.fn)), root, DataKey)

\* Reached: a route of r1 without the option gets r1's default although r0
\* sets another, and a route with the falsy option "0" gets "0" although a
\* default is set.
ValueIsOptionElseNearestDefaultWitness ==
    /\ live["r0"]
    /\ Has(dataware_default["r0"], DataKey)
    /\ \E e \in Dispatched("r0") :
           LET fns == ChainFns(e.fn)
           IN  \/ /\ OwnerOf(fns) = "r1"
                  /\ ~Has(e.options, DataKey)
                  /\ \E f \in Elems(fns) : f.kind = "dw" /\ f.id = "c0" /\ f.val = DefaultOf("r1")
               \/ /\ Has(e.options, DataKey)
                  /\ \E f \in Elems(fns) : f.kind = "dw" /\ f.id = "c0" /\ f.val = "0"

\* ------------------------------------------------------------------ composer.js: one pass

\* Composer.run, the while loop: from index i (1-based; Len + 1 is the
\* top-level next) the first entry that is unfiltered or passes its test.
\* A while loop that never steps over an entry: the requested index is
\* where the run lands, whatever the entry's filter says.
LandNext(chain, i, path) == i

RECURSIVE Land(_, _, _)
Land(chain, i, path) ==
    IF i > Len(chain) THEN i
    ELSE IF FilterPasses(chain[i], path) THEN i
    ELSE Land(chain, i + 1, path)

\* The functions a request runs, in order, when each calls next() once.
RECURSIVE RunFrom(_, _, _)
RunFrom(chain, i, path) ==
    LET j == Land(chain, i, path)
    IN  IF j > Len(chain) THEN << >>
        ELSE <<chain[j].fn>> \o RunFrom(chain, j + 1, path)

RunOrder(chain, path) == RunFrom(chain, 1, path)

\* The request paths tried against the tables.
ReqPaths ==
    {<<"/", "a">>, <<"/", "b">>, <<"/", "a", "/", "a">>, <<"/", "a", "/", "b">>,
     <<"/", "a", "/", "a", "/", "b">>}

Mw(n) == Fn("mw", "m", n, "")

RegisteredMw == SumOver(Routers, LAMBDA r : Len(middlewares[r]))

\* ------------------------------------------------------------------ SpecMw
\* Middleware registered with use() on r0 and on r1 (nested with use), and
\* the routes they are matched to.  The n-th function registered in the tree
\* is Mw(n).

MaxUseMw == 3

MaxRoutesMw == 1

InitMw == Constructed([r \in Routers |-> DefaultOpts])

MwUse ==
    \E r \in {"r0", "r1"}, p \in {<< >>, PathA, <<"/", "a", "/", "b">>} :
        /\ RegisteredMw < MaxUseMw
        /\ Use(r, <<p>>, <<Mw(RegisteredMw + 1)>>, << >>)

MwUseRouter == Use("r0", << << >> >>, << >>, <<"r1">>)

MwVerb ==
    \E r \in {"r0", "r1"}, p \in {PathA, PathAP} :
        /\ Len(routes[r]) < MaxRoutesMw
        /\ Verb(r, "get", "", <<p>>, << >>, <<Own(r)>>)

MwMiddleware == Middleware("r0")

NextMw ==
    \/ MwUse
    \/ MwUseRouter
    \/ MwVerb
    \/ MwMiddleware

SpecMw == InitMw /\ [][NextMw]_vars

\* ------------------------------------------------------------------ C5

\* C5 as claimed: of two middleware that both run on a request, the one
\* registered first with use() runs first.
MiddlewareRunInRegistrationOrder ==
    \A root \in LiveRouters : \A e \in Dispatched(root) : \A q \in ReqPaths :
        RouteMatches(e.path, q) =>
            LET run == SelectSeq(RunOrder(e.fn, q), LAMBDA f : f.kind = "mw")
            IN  \A i, j \in 1..Len(run) : i < j => run[i].n < run[j].n

\* ------------------------------------------------------------------ C6

\* The filter _matchMiddleware gives the middleware registered at path m.
FilterOf(m) ==
    [filtered |-> m # << >>, rich |-> m # << >> /\ Elems(m) \cap ParamAtoms # {},
     test |-> m, fn |-> Mw(0)]

\* C6 as claimed: a middleware whose own filter passes a request path that a
\* route matches is among the candidates composed into that route's chain.
MiddlewareNeverUnderIncluded ==
    \A root \in LiveRouters : \A e \in Dispatched(root) :
        \A i \in 1..Len(m_middlewares[root]) : \A q \in ReqPaths :
            (RouteMatches(e.path, q) /\ FilterPasses(FilterOf(m_middlewares[root][i].k), q))
                => Elems(m_middlewares[root][i].v) \subseteq Elems(ChainFns(e.fn))

\* ------------------------------------------------------------------ SpecChain
\* Middleware, dataware, paramware and two own handlers on routes of r0 and
\* of r1 (nested under r0 at /a), for both settings of paramwareBeforeDataware
\* on either router.

MaxRegsChain == 5

Own2(r) == <<Fn("own", r, 1, ""), Fn("own", r, 2, "")>>

InitChain ==
    \E b0, b1 \in BOOLEAN :
        Constructed([r \in Routers |->
                       NewOpts(<< >>, "", "", IF r = "r0" THEN b0 ELSE b1, TRUE,
                               "default", "default")])

ChainUse ==
    \E r \in {"r0", "r1"}, p \in {<< >>, PathA} :
        /\ Regs < MaxRegsChain
        /\ middlewares[r] = << >>
        /\ Use(r, <<p>>, <<Mw(RegisteredMw + 1)>>, << >>)

ChainUseData ==
    \E r \in {"r0", "r1"} :
        /\ Regs < MaxRegsChain
        /\ UserCtors(r) = 0
        /\ UseData(r, DataKey, << >>, <<CtorOf(r)>>)

ChainParam ==
    \E r \in {"r0", "r1"} :
        /\ Regs < MaxRegsChain
        /\ paramwares[r] = << >>
        /\ Param(r, ":p", <<Fn("fn", r, 0, "")>>)

ChainVerb ==
    \E r \in {"r0", "r1"}, o \in {<< >>, <<[k |-> DataKey, v |-> "5"]>>} :
        /\ Regs < MaxRegsChain
        /\ routes[r] = << >>
        /\ Verb(r, "get", "", <<PathAP>>, o, Own2(r))

ChainNest ==
    /\ Regs < MaxRegsChain
    /\ Nest("r0", <<PathA>>, "r1")

ChainMiddleware == Middleware("r0")

NextChain ==
    \/ ChainUse
    \/ ChainUseData
    \/ ChainParam
    \/ ChainVerb
    \/ ChainNest
    \/ ChainMiddleware

SpecChain == InitChain /\ [][NextChain]_vars

\* ------------------------------------------------------------------ C1

\* The position of a handler's group in the chain of a router created with
\* paramwareBeforeDataware = pbd.
GroupRank(kind, pbd) ==
    CASE kind = "mw" -> 1
      [] kind = "dw" -> IF pbd THEN 3 ELSE 2
      [] kind = "pw" -> IF pbd THEN 2 ELSE 3
      [] OTHER       -> 4

Kinds(run) == {run[i].kind : i \in 1..Len(run)}

\* C1: for every route of a live router and every request path it matches,
\* when each handler calls next once the handlers run group after group:
\* middleware, dataware, paramware, own handlers (paramware before dataware
\* when the dispatching router was created with paramwareBeforeDataware), and
\* the own handlers are the registered ones in registration order.
HandlersRunInGroups ==
    \A root \in LiveRouters : \A e \in Dispatched(root) : \A q \in ReqPaths :
        RouteMatches(e.path, q) =>
            LET run == RunOrder(e.fn, q)
                pbd == opts[root].paramwareBeforeDataware
            IN  /\ \A i, j \in 1..Len(run) :
                       i < j => GroupRank(run[i].kind, pbd) <= GroupRank(run[j].kind, pbd)
                /\ SelectSeq(run, LAMBDA f : f.kind = "own") = Own2(OwnerOf(run))

\* Reached: a live root created with paramwareBeforeDataware = true serves a
\* request on which handlers of all four groups run.
HandlersRunInGroupsWitness ==
    /\ live["r0"]
    /\ opts["r0"].paramwareBeforeDataware
    /\ \E e \in Dispatched("r0") : \E q \in ReqPaths :
           /\ RouteMatches(e.path, q)
           /\ Kinds(RunOrder(e.fn, q)) = {"mw", "dw", "pw", "own"}

\* ------------------------------------------------------------------ composer.js: Composer.run
\* One invocation of a composed chain.  inst.i is the cursor `that.i` (0-based,
\* -1 before the first run), inst.started the indexes of the handlers called,
\* in order, inst.calls[k + 1] how often handler k has called its next,
\* inst.returned the handlers that have returned, inst.last what the last
\* call of run did.

\* A faulty variant of Rejects: i < that.i.
RejectsBelow(i, cursor) == i < cursor

\* Composer.run: `if ( i <= that.i )`.
Rejects(i, cursor) == i <= cursor

\* Composer.run after the while loop stopped at index k: `this.i = i`, then
\* the handler (or, at k = len, the next the chain was invoked with) is called.
RunAt(I, k) ==
    [I EXCEPT !.i = k,
              !.started = IF k < Len(I.chain) THEN Append(@, k) ELSE @,
              !.last = IF k < Len(I.chain) THEN "handler" ELSE "next"]

\* Composer.run(i)
Run(I, i) ==
    IF Rejects(i, I.i) THEN [I EXCEPT !.last = "next() called multiple times"]
    ELSE RunAt(I, Land(I.chain, i + 1, I.path) - 1)

\* composed(context, next): an instance is taken, `inst.i = -1`, `inst.run(0)`.
Invoke(chain, path) ==
    Run([NoInvocation EXCEPT !.active = TRUE, !.chain = chain, !.path = path,
                             !.calls = [i \in 1..Len(chain) |-> 0]], 0)

ComposedCall(chain, path) ==
    /\ ~inst.active
    /\ inst' = Invoke(chain, path)
    /\ UNCHANGED <<cfgvars, req, urls, urlFor, pooled, url>>

\* The running handler k calls the next it was given, bound[k + 1].
CallNext(k, most) ==
    /\ inst.active
    /\ k \in Elems(inst.started) \ inst.returned
    /\ inst.calls[k + 1] < most
    /\ inst' = [Run(inst, k + 1) EXCEPT !.calls[k + 1] = @ + 1]
    /\ UNCHANGED <<cfgvars, req, urls, urlFor, pooled, url>>

\* The running handler k returns.
Return(k) ==
    /\ inst.active
    /\ k \in Elems(inst.started) \ inst.returned
    /\ inst' = [inst EXCEPT !.returned = @ \cup {k}]
    /\ UNCHANGED <<cfgvars, req, urls, urlFor, pooled, url>>

\* composed, `finally`: the promise of run(0) has settled, the instance goes
\* back to the pool.
ComposedSettle ==
    /\ inst.active
    /\ inst.started = << >> \/ inst.started[1] \in inst.returned
    /\ inst' = NoInvocation
    /\ UNCHANGED <<cfgvars, req, urls, urlFor, pooled, url>>

\* ------------------------------------------------------------------ SpecRun
\* Invocations of the chains of a live r0: up to two middleware (unfiltered,
\* or filtered to /a) and a route /:p with two handlers; every running handler
\* may call its next up to MaxNextCalls times and return at any time.
\* Registrations are made while no invocation is running.

MaxUseRun == 2

MaxNextCalls == 2

PathP == <<"/", ":p">>

InitRun == Constructed([r \in Routers |-> DefaultOpts])

RunUse ==
    \E p \in {<< >>, PathA, PathP} :
        /\ ~inst.active
        /\ RegisteredMw < MaxUseRun
        /\ Use("r0", <<p>>, <<Mw(RegisteredMw + 1)>>, << >>)

RunVerb ==
    /\ ~inst.active
    /\ routes["r0"] = << >>
    /\ Verb("r0", "get", "", <<PathP>>, << >>, Own2("r0"))

RunMiddleware == Middleware("r0")

RunComposed ==
    \E e \in Dispatched("r0"), q \in {PathA, <<"/", "b">>} :
        /\ live["r0"]
        /\ RouteMatches(e.path, q)
        /\ ComposedCall(e.fn, q)

RunNext == \E k \in Elems(inst.started) : CallNext(k, MaxNextCalls)

RunReturn == \E k \in Elems(inst.started) : Return(k)

RunSettle == ComposedSettle

NextRun ==
    \/ RunUse
    \/ RunVerb
    \/ RunMiddleware
    \/ RunComposed
    \/ RunNext
    \/ RunReturn
    \/ RunSettle

SpecRun == InitRun /\ [][NextRun]_vars

\* ------------------------------------------------------------------ C7

\* C7: within one invocation, when a handler that has already called its
\* next calls it again, the call is rejected with 'next() called multiple
\* times', no handler is called, and the cursor, the handlers started by the
\* first call and the handlers that have returned stay as they are.
SecondNextIsRejected ==
    [][\A k \in 1..Len(inst.calls) :
          (/\ inst.active
           /\ inst'.active
           /\ inst.calls[k] >= 1
           /\ inst'.calls = [inst.calls EXCEPT ![k] = @ + 1])
          => /\ inst'.last = "next() called multiple times"
             /\ inst'.started = inst.started
             /\ inst'.i = inst.i
             /\ inst'.returned = inst.returned]_vars

\* Reached: a handler has called its next twice, the second call was
\* rejected, and the handler its first call started is still running.
SecondNextIsRejectedWitness ==
    /\ inst.active
    /\ inst.last = "next() called multiple times"
    /\ \E k \in 1..Len(inst.calls) :
           /\ inst.calls[k] = 2
           /\ \E j \in Elems(inst.started) \ inst.returned : j > k - 1

\* ------------------------------------------------------------------ router.js: dispatch
\* The middleware returned by middleware().  req.phase is "passed" (no match,
\* next() returned), "pending" (the promise of the handler is pending, with
\* urls.done and urls.catch attached), "resolved" / "rejected" (it settled)
\* or "thrown" (dispatch threw before it returned a promise).

Methods == {"get", "post", "options"}

\* dispatch, the test of one entry of router._routers against
\* ctx.request.host.toLowerCase(): a table without a host serves every
\* request, one with a literal host (kept in lower case by _update) the
\* requests for that host, one with a pattern the hosts its matcher takes.
Eligible(tableHost, host) ==
    \/ tableHost = ""
    \/ IF HostRich(tableHost) THEN HostTest(tableHost, Lower(host))
       ELSE Lower(tableHost) = Lower(host)

\* find-my-way: a static route is preferred to a parametric one, and that to
\* a wildcard.
Specificity(path) ==
    IF "*" \in Elems(path) THEN 2 ELSE IF Elems(path) \cap ParamAtoms # {} THEN 1 ELSE 0

Preferred(t, M) ==
    CHOOSE i \in M : \A j \in M :
        \/ Specificity(t[i].k) < Specificity(t[j].k)
        \/ Specificity(t[i].k) = Specificity(t[j].k) /\ i <= j

\* A faulty variant of FindIn: the first route of the table, whatever the path.
FindInFirst(t, q) == IF t = << >> THEN 0 ELSE 1

\* rt.find('GET', ctx.path): the position of the matching route, 0 for none.
FindIn(t, q) ==
    IF \E i \in 1..Len(t) : RouteMatches(t[i].k, q)
    THEN Preferred(t, {i \in 1..Len(t) : RouteMatches(t[i].k, q)})
    ELSE 0

\* dispatch, the loop over router._routers: the store of the first match.
MatchIn(tables, q) ==
    IF tables = << >> THEN [found |-> FALSE, table |-> "", store |-> << >>]
    ELSE [found |-> TRUE, table |-> tables[1].k,
          store |-> tables[1].v[FindIn(tables[1].v, q)].v]

\* A faulty variant of Match: only the first eligible table is asked for the
\* path.
MatchFirstEligible(W, r, host, q) ==
    IF \E i \in 1..Len(W.m_routers[r]) : Eligible(W.m_routers[r][i].k, host)
    THEN MatchIn(SelectSeq(<<SelectSeq(W.m_routers[r], LAMBDA h : Eligible(h.k, host))[1]>>,
                           LAMBDA h : FindIn(h.v, q) # 0), q)
    ELSE MatchIn(<< >>, q)

Match(W, r, host, q) ==
    MatchIn(SelectSeq(W.m_routers[r], LAMBDA h : Eligible(h.k, host) /\ FindIn(h.v, q) # 0), q)

\* dispatch: what answers a request whose path matched.
Branch(o, method, store) ==
    IF Has(store, method) \/ (method # "options" /\ Has(store, "all")) THEN "route"
    ELSE IF method = "options" /\ o.handleOptions # "off"
         THEN (IF o.handleOptions = "fn" THEN "handleOptions:fn" ELSE "handleOptions")
    ELSE IF o.handle405 = "off" THEN "next"
    ELSE IF o.handle405 = "fn" THEN "handle405:fn"
    ELSE "handle405"

\* Does the call dispatch makes throw before it returns a promise: the
\* built-in handle405 always does (ctx.throw), a handler given in the options
\* may, a composed chain (an async function), the built-in handleOptions and
\* the downstream next do not.
SyncThrow(branch, throws) ==
    \/ branch = "handle405"
    \/ branch \in {"handle405:fn", "handleOptions:fn"} /\ throws

\* require('methods'): the methods the model knows.
METHODS == <<"get", "post", "options">>

\* String.prototype.toUpperCase on a method name.
Upper(m) ==
    CASE m = "get" -> "GET" [] m = "post" -> "POST" [] m = "options" -> "OPTIONS"
      [] m = "all" -> "ALL" [] OTHER -> m

\* A faulty variant of Allowed: every method, whatever the store holds.
AllowedAll(store) == [i \in 1..Len(METHODS) |-> Upper(METHODS[i])]

\* handle405 / handleOptions: allowed = store.all ? METHODS : Object.keys(store),
\* upper-cased for the Allow header.
Allowed(store) ==
    IF Has(store, "all") THEN [i \in 1..Len(METHODS) |-> Upper(METHODS[i])]
    ELSE [i \in 1..Len(store) |-> Upper(store[i].k)]

\* dispatch, ctx.state._route = data: the entry of the store data is, the
\* method's own or the one of all().
EntryOf(store, method) == IF Has(store, method) THEN method ELSE "all"

\* dispatch: data = store[method] || (method !== 'options' && store.all).
DataOf(store, method) == IF Has(store, method) THEN Get(store, method) ELSE Get(store, "all")

\* dispatch, from `const {params, store} = match` on: the helper is taken
\* from the pool and put on the context, then the handler is called.  allow
\* is the Allow list a built-in handler gives, nexts how often dispatch
\* itself calls the downstream next, route the entry of the store the
\* request is served by, data that entry (ctx.state._route), table the host
\* of the matcher the path was found in.
Matched(host, method, q, branch, throws, store, table) ==
    /\ urls' = [urls EXCEPT !.acquired = @ + 1]
    /\ urlFor' = TRUE
    /\ req' = [phase |-> IF SyncThrow(branch, throws) THEN "thrown" ELSE "pending",
               method |-> method, path |-> q, branch |-> branch,
               allow |-> IF branch \in {"handle405", "handleOptions"} THEN Allowed(store)
                         ELSE << >>,
               nexts |-> IF branch = "next" THEN 1 ELSE 0,
               host |-> host,
               name_prefix |-> IF branch = "route" THEN DataOf(store, method).name_prefix
                               ELSE << >>,
               route |-> IF branch = "route" THEN EntryOf(store, method) ELSE "",
               table |-> table,
               data |-> IF branch = "route" THEN DataOf(store, method) ELSE NoData]

DispatchWith(host, method, q, throws, m) ==
    IF m.found
    THEN Matched(host, method, q, Branch(opts["r0"], method, m.store), throws, m.store,
                 m.table)
    ELSE /\ req' = [phase |-> "passed", method |-> method, path |-> q, branch |-> "none",
                    allow |-> << >>, nexts |-> 1, host |-> host, name_prefix |-> << >>,
                    route |-> "", table |-> "", data |-> NoData]
         /\ urlFor' = FALSE
         /\ UNCHANGED urls

\* dispatch(ctx, next) for a request with the Host header host.
DispatchOn(host, method, q, throws) ==
    /\ live["r0"]
    /\ req.phase # "pending"
    /\ DispatchWith(host, method, q, throws, Match(World, "r0", host, q))
    /\ UNCHANGED <<cfgvars, inst, pooled, url>>

\* dispatch(ctx, next) for a request without a Host header.
Dispatch(method, q, throws) == DispatchOn("", method, q, throws)

\* The promise dispatch returned settles: urls.done or urls.catch runs.  The
\* built-in handleOptions returns nothing, so its promise resolves.
DispatchSettled(ok) ==
    /\ req.phase = "pending"
    /\ ok \/ req.branch # "handleOptions"
    /\ req' = [req EXCEPT !.phase = IF ok THEN "resolved" ELSE "rejected"]
    /\ urls' = [urls EXCEPT !.released = @ + 1]
    /\ urlFor' = FALSE
    /\ UNCHANGED <<cfgvars, inst, pooled, url>>

\* ------------------------------------------------------------------ SpecDispatch
\* Requests to a live r0 with routes for get, post or all on /a, for every
\* setting of handle405 and handleOptions (built-in, off, a function).

MaxRequests == 2

MaxRoutesDispatch == 2

InitDispatch ==
    \E h405, hOptions \in {"default", "off", "fn"} :
        Constructed([r \in Routers |-> NewOpts(<< >>, "", "", FALSE, TRUE, h405, hOptions)])

DispatchVerb ==
    \E m \in {"get", "post", "all"} :
        /\ Len(routes["r0"]) < MaxRoutesDispatch
        /\ Verb("r0", m, "", <<PathA>>, << >>, <<Own("r0")>>)

DispatchMiddleware == Middleware("r0")

DispatchRequest ==
    \E method \in Methods, q \in {PathA, <<"/", "b">>}, throws \in BOOLEAN :
        /\ urls.acquired < MaxRequests
        /\ Dispatch(method, q, throws)

DispatchSettle == \E ok \in BOOLEAN : DispatchSettled(ok)

NextDispatch ==
    \/ DispatchVerb
    \/ DispatchMiddleware
    \/ DispatchRequest
    \/ DispatchSettle

SpecDispatch == InitDispatch /\ [][NextDispatch]_vars

\* ------------------------------------------------------------------ C10

\* C10 as claimed: once a dispatch that acquired a URL helper has completed
\* or failed (its promise settled, or it threw), every helper acquired has
\* been released and the context's urlFor is cleared.
HelperReleasedOnEveryOutcome ==
    req.phase \in {"resolved", "rejected", "thrown"} =>
        (urls.released = urls.acquired /\ ~urlFor)

\* ------------------------------------------------------------------ C14, C15, C16
\* What the claims about dispatch compare: the methods the raw registrations
\* of r0 put on a path, and what a call of dispatch did.

\* The methods registered on a path that serves q.
RegisteredOn(q) ==
    UNION {{m.k : m \in Elems(rt.ms)} :
              rt \in {x \in Elems(routes["r0"]) :
                         \E p \in Elems(x.paths) : RouteMatches(p, q)}}

\* The step is a call of dispatch (not the settling of its promise).
DispatchCalled ==
    /\ req' # req \/ urls'.acquired # urls.acquired
    /\ req'.phase \in {"thrown", "pending", "passed"}

\* The request of the step finds its path, and the path has no handler for
\* its method and no all() entry.
MethodNotRegistered ==
    /\ DispatchCalled
    /\ RegisteredOn(req'.path) # {}
    /\ "all" \notin RegisteredOn(req'.path)
    /\ req'.method \notin RegisteredOn(req'.path)

\* The step gave the named built-in outcome with exactly the registered
\* methods in its Allow list.
AllowsRegistered(branch) ==
    /\ req'.branch = branch
    /\ Elems(req'.allow) = {Upper(m) : m \in RegisteredOn(req'.path)}

ServedAsOptions == req'.method = "options" /\ opts["r0"].handleOptions # "off"

\* C14, amended: for a path with exactly the methods S registered and no
\* all() entry, a request with a method outside S never invokes the route's
\* chain; an OPTIONS request under the built-in OPTIONS handling gets the
\* OPTIONS outcome whose Allow list is exactly S, and any other such request
\* under the built-in 405 handling gets the method-not-allowed outcome whose
\* Allow list is exactly S.
AllowListsRegisteredMethodsWhenBuiltIn ==
    [][MethodNotRegistered =>
          /\ req'.branch # "route"
          /\ (ServedAsOptions /\ opts["r0"].handleOptions = "default")
                 => AllowsRegistered("handleOptions")
          /\ (~ServedAsOptions /\ opts["r0"].handle405 = "default")
                 => AllowsRegistered("handle405")]_vars

\* C14 as claimed: every request with a method outside S gets the OPTIONS
\* outcome (an OPTIONS request, OPTIONS handling enabled) or the
\* method-not-allowed outcome, with exactly S in its Allow list, and the
\* route's chain is not invoked.
AllowListsRegisteredMethods ==
    [][MethodNotRegistered =>
          /\ req'.branch # "route"
          /\ IF ServedAsOptions THEN AllowsRegistered("handleOptions")
             ELSE AllowsRegistered("handle405")]_vars

\* Both get and post are registered on /a and a request with another method
\* got the method-not-allowed outcome listing the two.
AllowListsRegisteredMethodsWitness ==
    /\ req.branch = "handle405"
    /\ req.path = PathA
    /\ RegisteredOn(PathA) = {"get", "post"}
    /\ Elems(req.allow) = {"GET", "POST"}

\* C15: a call of dispatch whose path no registered route serves calls the
\* downstream next exactly once and returns its result: it does not throw,
\* invokes no route handler and takes no URL helper from the pool.
UnmatchedPathDelegatesToNext ==
    [][(DispatchCalled /\ RegisteredOn(req'.path) = {}) =>
          /\ req'.phase = "passed"
          /\ req'.nexts = 1
          /\ req'.branch = "none"
          /\ urls' = urls
          /\ ~urlFor']_vars

\* A router that has routes was asked for a path none of them serves.
UnmatchedPathDelegatesToNextWitness ==
    /\ req.phase = "passed"
    /\ req.nexts = 1
    /\ routes["r0"] # << >>
    /\ RegisteredOn(req.path) = {}
    /\ urls.acquired = 0

\* C16 as claimed: a request that matched a path but found no handler for
\* its method never makes dispatch throw, and the built-in OPTIONS and 405
\* outcomes never reject.
UnservedMethodNeverThrows ==
    /\ req.branch \in {"handleOptions", "handle405", "next"} => req.phase # "thrown"
    /\ req.branch \in {"handleOptions", "handle405"} => req.phase # "rejected"

\* ------------------------------------------------------------------ rebuilding
\* What the claims about the rebuild compare: the tables a router holds, and
\* the tables a build from the raw registrations alone would give it.

\* The same routes, chains, route data, middleware and names for router x.
SameTables(V, W, x) ==
    /\ DispatchedIn(V, x) = DispatchedIn(W, x)
    /\ MergedIn(V, x) = MergedIn(W, x)
    /\ V.m_middlewares[x] = W.m_middlewares[x]
    /\ V.m_named[x] = W.m_named[x]

RECURSIVE HeightIn(_, _)
HeightIn(W, r) ==
    LET C == UNION {Elems(W.nested[r][i].v) : i \in 1..Len(W.nested[r])}
    IN  IF C = {} THEN 0
        ELSE 1 + (CHOOSE h \in {HeightIn(W, c) : c \in C} :
                      \A g \in {HeightIn(W, c) : c \in C} : g <= h)

\* The routers, every router after the routers nested in it.
BuildOrder(W) == StableSort(<<"r0", "r1", "r2">>, LAMBDA r : HeightIn(W, r))

\* The program started again: new routers and new function objects, the
\* same registrations, every router rebuilt after its children.
FromScratch(W) ==
    FoldL(UpdateOne,
          [W EXCEPT !.m_routes = [r \in Routers |-> << >>],
                    !.m_middlewares = [r \in Routers |-> << >>],
                    !.m_named = [r \in Routers |-> << >>],
                    !.m_routers = [r \in Routers |-> << >>],
                    !.fnsort = [f \in SharedFns |-> << >>]],
          BuildOrder(W))

\* ------------------------------------------------------------------ SpecShare
\* Dataware keys A and B on r0 whose constructors hand out the same function
\* (cS) or a function with its own weight (cG), routes on r0 and on r1
\* (nested under r0 at /a) that ask for A or for B, sortData giving a key
\* the weight 1, and use('/a') without functions, which only rebuilds.

MaxRoutesShare == 2

PathB == <<"/", "b">>

InitShare == Constructed([r \in Routers |-> DefaultOpts])

ShareUseData ==
    \E key \in {"A", "B"}, w \in {<< >>, <<5>>}, cs \in {<<"cS">>, <<"cS", "cG">>} :
        /\ ~Has(datawares["r0"], key)
        /\ UseData("r0", key, w, cs)

ShareVerb ==
    \E r \in {"r0", "r1"}, p \in {PathA, PathB}, key \in {"A", "B"} :
        /\ Len(routes["r0"]) + Len(routes["r1"]) < MaxRoutesShare
        /\ Verb(r, "get", "", <<p>>, <<[k |-> key, v |-> "1"]>>, <<Own(r)>>)

ShareSortData == \E key \in {"A", "B"} : SortData("r0", key, 1)

ShareNest == Nest("r0", <<PathA>>, "r1")

ShareRebuild == Use("r0", <<PathA>>, << >>, << >>)

ShareMiddleware == Middleware("r0")

NextShare ==
    \/ ShareUseData
    \/ ShareVerb
    \/ ShareSortData
    \/ ShareNest
    \/ ShareRebuild
    \/ ShareMiddleware

SpecShare == InitShare /\ [][NextShare]_vars

\* ------------------------------------------------------------------ C8

\* C8 as claimed: after a registration call returned, the tables of every
\* router are the ones a build from scratch over the raw registrations gives.
TablesEqualFromScratch ==
    ~failed => \A x \in Routers : SameTables(World, FromScratch(World), x)

\* ------------------------------------------------------------------ C9

\* C9 as claimed: rebuilding a router again, with no registration in between,
\* leaves the routes, chains, route data, middleware and names of every
\* router as they are.
RebuildIsIdempotent ==
    ~failed => \A r \in Routers : \A x \in Routers :
                   SameTables(World, Update(World, r), x)

\* ------------------------------------------------------------------ composer.js: pooled invocations
\* A composed function with its pool.  pooled.chain is the middlewares array,
\* pooled.objs the Composer instances constructed so far ([i, context, next];
\* context and next hold the number of the invocation they were given by, 0
\* for null), pooled.free the instances reusify holds, head first,
\* pooled.invs the invocations (each with its own context: path, orig the
\* path the request came with, rest the wildcard parameter, bad a context
\* without request.path), pooled.acts the handler calls made ([by] the
\* invocation whose handlers the call descends from, [ctx] the invocation
\* whose context the handler was given, [idx] the handler, Len(chain) for
\* the downstream next), pooled.ev what the last call of run did.

\* Errors: a handler's own error is named by the number of the call that
\* threw it.
NoError == 0

\* The TypeError of a filter test, thrown by run itself.
RunError == 0 - 1

\* A faulty variant of PoolGet: the head is handed out and stays in the list.
PoolGetKept(R) == R

\* reusify get(): the head of the list; when it was the only instance a new
\* one is constructed to take its place.
PoolGet(R) ==
    IF Len(R.free) > 1 THEN [R EXCEPT !.free = Tail(@)]
    ELSE [R EXCEPT !.objs = Append(@, [i |-> 0 - 1, context |-> 0, next |-> 0]),
                   !.free = <<Len(R.objs) + 1>>]

\* reusify release(obj): the instance goes to the tail of the list.
PoolRelease(R, o) == [R EXCEPT !.free = Append(@, o)]

\* Composer.run, the while loop from the 1-based position i: the position
\* it stops at (Len + 1: the downstream next), 0 when a filter test throws
\* (path.startsWith of a context without request.path; a RegExp test of such
\* a path does not throw and does not match).
RECURSIVE Scan(_, _, _, _)
Scan(chain, i, path, bad) ==
    IF i > Len(chain) THEN i
    ELSE IF bad /\ chain[i].filtered /\ ~chain[i].rich THEN 0
    ELSE IF (bad /\ ~chain[i].filtered) \/ (~bad /\ FilterPasses(chain[i], path)) THEN i
    ELSE Scan(chain, i + 1, path, bad)

Event(R, kind, by, ctx, o) ==
    [R EXCEPT !.ev = [kind |-> kind, by |-> by, ctx |-> ctx, obj |-> o]]

IsMount(chain, k) == k < Len(chain) /\ chain[k + 1].fn.id = "Mount"

\* Composer.run after the loop stopped at the 0-based index k: `this.i = i`,
\* then the handler (at k = len the downstream next) is called with the
\* instance's context.
Call(R, by, o, k, parent) ==
    Event([R EXCEPT !.objs[o].i = k,
                    !.acts = Append(@, [by |-> by, ctx |-> R.objs[o].context, obj |-> o,
                                        idx |-> k, calls |-> 0, done |-> "", err |-> 0,
                                        saw |-> R.invs[R.objs[o].context].path,
                                        old |-> << >>, parent |-> parent])],
          IF k < Len(R.chain) THEN "handler" ELSE "next", by, R.objs[o].context, o)

\* lib/mount.js, up to `await next()`, for the Mount call just added to
\* acts: the path is saved and replaced by '/' + ctx.params[param].
MountEnter(R) ==
    [R EXCEPT !.acts[Len(R.acts)].old = R.invs[R.acts[Len(R.acts)].ctx].path,
              !.acts[Len(R.acts)].calls = 1,
              !.invs[R.acts[Len(R.acts)].ctx].path =
                  <<"/">> \o R.invs[R.acts[Len(R.acts)].ctx].rest]

\* Composer.run(i) on the instance o, called by a handler that descends
\* from the invocation `by` (parent is that handler's call, 0 for composed).
RECURSIVE RunOn(_, _, _, _, _)
Entered(R, by, o, k) ==
    IF IsMount(R.chain, k) THEN RunOn(MountEnter(R), by, o, k + 1, Len(R.acts)) ELSE R

Landed(R, by, o, parent, k1) ==
    IF k1 = 0 THEN Event(R, "threw", by, R.objs[o].context, o)
    ELSE Entered(Call(R, by, o, k1 - 1, parent), by, o, k1 - 1)

RunOn(R, by, o, i, parent) ==
    IF Rejects(i, R.objs[o].i) THEN Event(R, "next() called multiple times", by, 0, o)
    ELSE IF R.objs[o].context = 0 THEN Event(R, "TypeError", by, 0, o)
    ELSE Landed(R, by, o, parent,
                Scan(R.chain, i + 1, R.invs[R.objs[o].context].path,
                     R.invs[R.objs[o].context].bad))

\* composed(context, next), up to the await: an instance is taken from the
\* pool, `inst.i = -1`, the context and next are stored, `inst.run(0)`.
Acquired(R, o, path, rest, bad) ==
    [R EXCEPT !.objs[o] = [i |-> 0 - 1, context |-> Len(R.invs) + 1, next |-> Len(R.invs) + 1],
              !.invs = Append(@, [obj |-> o, state |-> "running", released |-> 0, err |-> 0,
                                  path |-> path, orig |-> path, rest |-> rest, bad |-> bad,
                                  root |-> 0])]

\* The call run(0) of invocation n made, if it made one (it made none when
\* a filter test threw): the first call added to the `before` earlier ones.
Rooted(R, n, before) ==
    IF Len(R.acts) > before THEN [R EXCEPT !.invs[n].root = before + 1] ELSE R

ComposedInvoke(R, path, rest, bad) ==
    Rooted(RunOn(Acquired(PoolGet(R), Head(R.free), path, rest, bad),
                 Len(R.invs) + 1, Head(R.free), 0, 0),
           Len(R.invs) + 1, Len(R.acts))

\* The error the promise of run(0) of invocation n is rejected with: the
\* one its handler threw, RunError when run itself threw, NoError when none.
RootError(R, n) == IF R.invs[n].root = 0 THEN RunError ELSE R.acts[R.invs[n].root].err

\* Has the promise of run(0) of invocation n settled, and how: run(0) threw
\* (no handler was called), or the handler it called has returned or thrown.
RootSettled(R, n) ==
    IF R.invs[n].root = 0 THEN TRUE ELSE R.acts[R.invs[n].root].done # ""

RootResolved(R, n) ==
    IF R.invs[n].root = 0 THEN FALSE ELSE R.acts[R.invs[n].root].done = "returned"

\* A faulty variant of ComposedFinally: the instance is cleared and released
\* in a `then`, so only when the promise resolved.
ComposedThen(R, n) ==
    IF RootResolved(R, n)
    THEN PoolRelease([R EXCEPT !.invs[n].state = "resolved",
                               !.invs[n].err = RootError(R, n),
                               !.invs[n].released = @ + 1,
                               !.objs[R.invs[n].obj].context = 0,
                               !.objs[R.invs[n].obj].next = 0],
                     R.invs[n].obj)
    ELSE [R EXCEPT !.invs[n].state = "rejected", !.invs[n].err = RootError(R, n)]

\* A faulty variant of ComposedFinally: the rejection of run(0) is caught
\* and the promise of composed resolves.
ComposedSwallows(R, n) ==
    PoolRelease([R EXCEPT !.invs[n].state = "resolved",
                          !.invs[n].released = @ + 1,
                          !.objs[R.invs[n].obj].context = 0,
                          !.objs[R.invs[n].obj].next = 0],
                R.invs[n].obj)

\* composed, `return await inst.run(0)` in a try with a `finally`: context
\* and next are cleared and the instance is released, however the promise
\* settled, and the promise of composed settles as that of run(0) did.
ComposedFinally(R, n) ==
    PoolRelease([R EXCEPT !.invs[n].state = IF RootResolved(R, n) THEN "resolved" ELSE "rejected",
                          !.invs[n].err = RootError(R, n),
                          !.invs[n].released = @ + 1,
                          !.objs[R.invs[n].obj].context = 0,
                          !.objs[R.invs[n].obj].next = 0],
                R.invs[n].obj)

\* compose(...input): the composed function and its pool.
Compose(chain) ==
    /\ pooled.chain = << >>
    /\ pooled' = [NoRuntime EXCEPT !.chain = chain]
    /\ UNCHANGED <<cfgvars, req, urls, urlFor, inst, url>>

PooledCall(path, rest, bad) ==
    /\ pooled.chain # << >>
    /\ pooled' = ComposedInvoke(pooled, path, rest, bad)
    /\ UNCHANGED <<cfgvars, req, urls, urlFor, inst, url>>

\* The handler of call a calls the next it was given, bound[idx + 1] of the
\* instance it was called on, now or at any later time.
HandlerCallsNext(a, most) ==
    /\ pooled.acts[a].idx < Len(pooled.chain)
    /\ ~IsMount(pooled.chain, pooled.acts[a].idx)
    /\ pooled.acts[a].calls < most
    /\ pooled' = RunOn([pooled EXCEPT !.acts[a].calls = @ + 1], pooled.acts[a].by,
                       pooled.acts[a].obj, pooled.acts[a].idx + 1, a)
    /\ UNCHANGED <<cfgvars, req, urls, urlFor, inst, url>>

\* The promise of call a settles: the handler returns or throws.
HandlerSettles(a, ok) ==
    /\ pooled.acts[a].done = ""
    /\ ~IsMount(pooled.chain, pooled.acts[a].idx)
    /\ pooled' = [pooled EXCEPT !.acts[a].done = IF ok THEN "returned" ELSE "threw",
                                !.acts[a].err = IF ok THEN NoError ELSE a]
    /\ UNCHANGED <<cfgvars, req, urls, urlFor, inst, url>>

\* The call Mount made with next(): the handler call whose parent is a.
MountChild(R, a) == {c \in 1..Len(R.acts) : R.acts[c].parent = a}

\* Composer.run, `Promise.resolve(fn(...))` in a try whose catch returns
\* Promise.reject(err): the error the promise of the next() that started
\* the calls C is rejected with (run threw when it started none).
NextError(R, C) == IF C = {} THEN RunError ELSE R.acts[CHOOSE c \in C : TRUE].err

\* The handler of call a returns the promise of a next() it called (or
\* awaits it outside a try): its own promise settles as that one did.
HandlerPasses(a, c) ==
    /\ pooled.acts[a].done = ""
    /\ ~IsMount(pooled.chain, pooled.acts[a].idx)
    /\ pooled.acts[c].parent = a
    /\ pooled.acts[c].done # ""
    /\ pooled' = [pooled EXCEPT !.acts[a].done = pooled.acts[c].done,
                                !.acts[a].err = pooled.acts[c].err]
    /\ UNCHANGED <<cfgvars, req, urls, urlFor, inst, url>>

\* lib/mount.js, from `await next()` on: once the promise of next() has
\* settled the path is restored (`finally`) and Mount settles the same way.
MountReturned(R, a) == \E c \in MountChild(R, a) : R.acts[c].done = "returned"

\* A faulty variant of MountLeave: the path is restored after `await next()`
\* without a `finally`, so only when next() resolved.
MountLeaveThen(R, a) ==
    IF MountReturned(R, a)
    THEN [R EXCEPT !.acts[a].done = "returned", !.invs[R.acts[a].ctx].path = R.acts[a].old]
    ELSE [R EXCEPT !.acts[a].done = "threw", !.acts[a].err = NextError(R, MountChild(R, a))]

MountLeave(R, a) ==
    [R EXCEPT !.acts[a].done = IF MountReturned(R, a) THEN "returned" ELSE "threw",
              !.acts[a].err = IF MountReturned(R, a) THEN NoError
                              ELSE NextError(R, MountChild(R, a)),
              !.invs[R.acts[a].ctx].path = R.acts[a].old]

MountSettles(a) ==
    /\ pooled.acts[a].done = ""
    /\ IsMount(pooled.chain, pooled.acts[a].idx)
    /\ \A c \in MountChild(pooled, a) : pooled.acts[c].done # ""
    /\ pooled' = MountLeave(pooled, a)
    /\ UNCHANGED <<cfgvars, req, urls, urlFor, inst, url>>

ComposedSettles(n) ==
    /\ pooled.invs[n].state = "running"
    /\ RootSettled(pooled, n)
    /\ pooled' = ComposedFinally(pooled, n)
    /\ UNCHANGED <<cfgvars, req, urls, urlFor, inst, url>>

\* ------------------------------------------------------------------ SpecPool
\* compose() called on its own with a middleware filtered to /a and a
\* handler, and up to MaxInvocations invocations of the composed function
\* for the path /a (with or without request.path on the context), at most
\* MaxInFlight of them unsettled at a time; the handlers
\* call their next up to MaxNextTotal times in all, at any time, and return
\* or throw at any time.

MaxInvocations == 3

MaxInFlight == 2

MaxNextTotal == 2

Handler(n) == Fn("own", "h", n, "")

PoolChain ==
    ComposeOrder(<<[filtered |-> TRUE, rich |-> FALSE, test |-> PathA, fn |-> Handler(0)]>>,
                 << >>, << >>, <<Handler(1)>>)

InFlight(R) == {n \in 1..Len(R.invs) : R.invs[n].state = "running"}

InitPool == Constructed([r \in Routers |-> DefaultOpts])

PoolCompose == Compose(PoolChain)

PoolInvoke ==
    \E bad \in BOOLEAN :
        /\ Len(pooled.invs) < MaxInvocations
        /\ Cardinality(InFlight(pooled)) < MaxInFlight
        /\ PooledCall(PathA, << >>, bad)

NextCalls(R) == FoldL(LAMBDA n, a : n + a.calls, 0, R.acts)

PoolNext ==
    \E a \in 1..Len(pooled.acts) :
        /\ NextCalls(pooled) < MaxNextTotal
        /\ HandlerCallsNext(a, MaxNextTotal)

PoolHandlerSettles == \E a \in 1..Len(pooled.acts), ok \in BOOLEAN : HandlerSettles(a, ok)

PoolSettles == \E n \in 1..Len(pooled.invs) : ComposedSettles(n)

NextPool ==
    \/ PoolCompose
    \/ PoolInvoke
    \/ PoolNext
    \/ PoolHandlerSettles
    \/ PoolSettles

SpecPool == InitPool /\ [][NextPool]_vars

\* ------------------------------------------------------------------ C11

\* C11 as claimed: a call of a next obtained during an invocation that has
\* settled since never runs a handler (or the downstream next) with the
\* context of another invocation, nor moves the cursor of the instance
\* another invocation holds.
StaleNextNeverLeaks ==
    (/\ pooled.ev.kind \in {"handler", "next"}
     /\ pooled.invs[pooled.ev.by].state # "running")
        => pooled.ev.ctx = pooled.ev.by

\* ------------------------------------------------------------------ C12

\* C12: any two unsettled invocations hold different instances, an instance
\* an unsettled invocation holds is not in the pool and carries that
\* invocation's context and next, and a handler called through a next of an
\* unsettled invocation is given that invocation's context.
InFlightHoldDistinctInstances ==
    /\ \A m, n \in InFlight(pooled) : m # n => pooled.invs[m].obj # pooled.invs[n].obj
    /\ \A n \in InFlight(pooled) :
           /\ pooled.invs[n].obj \notin Elems(pooled.free)
           /\ pooled.objs[pooled.invs[n].obj].context = n
           /\ pooled.objs[pooled.invs[n].obj].next = n
    /\ (pooled.ev.kind \in {"handler", "next"} /\ pooled.ev.by \in InFlight(pooled))
           => pooled.ev.ctx = pooled.ev.by

\* Reached: two invocations are unsettled, each has had a handler called
\* through next, and one of them runs on an instance an earlier invocation
\* has released.
InFlightHoldDistinctInstancesWitness ==
    \E m, n \in InFlight(pooled) :
        /\ m # n
        /\ \E a, b \in 1..Len(pooled.acts) :
               /\ pooled.acts[a].by = m /\ pooled.acts[a].idx = 1
               /\ pooled.acts[b].by = n /\ pooled.acts[b].idx = 1
        /\ \E k \in 1..Len(pooled.invs) :
               pooled.invs[k].state # "running" /\ pooled.invs[k].obj = pooled.invs[n].obj

\* ------------------------------------------------------------------ C13

\* C13: an invocation has released its instance once when it has settled
\* (resolved, rejected, or a filter test threw) and not before, an instance
\* in the pool is there once and has neither context nor next, and run(0) of
\* an invocation calls a handler unless a filter test throws (the cursor an
\* earlier invocation left is reset).
InstanceReleasedOnceOnSettle ==
    /\ \A n \in 1..Len(pooled.invs) :
           /\ pooled.invs[n].released = IF pooled.invs[n].state = "running" THEN 0 ELSE 1
           /\ pooled.invs[n].root = 0 => pooled.invs[n].bad
    /\ \A i, j \in 1..Len(pooled.free) : i # j => pooled.free[i] # pooled.free[j]
    /\ \A o \in Elems(pooled.free) :
           pooled.objs[o].context = 0 /\ pooled.objs[o].next = 0

\* Reached: one invocation was rejected because a filter test threw, one
\* resolved, one was rejected by its handler, and the instance of one of them
\* has been acquired and released again.
InstanceReleasedOnceOnSettleWitness ==
    \E k, m, n \in 1..Len(pooled.invs) :
        /\ pooled.invs[k].state = "rejected" /\ pooled.invs[k].root = 0
        /\ pooled.invs[m].state = "resolved"
        /\ pooled.invs[n].state = "rejected" /\ pooled.invs[n].root # 0
        /\ \E x, y \in {k, m, n} : x # y /\ pooled.invs[x].obj = pooled.invs[y].obj

\* ------------------------------------------------------------------ mounted routes at run time

\* find-my-way: the tables of the eligible hosts that hold a route for q.
EligibleTables(W, r, host, q) ==
    SelectSeq(W.m_routers[r], LAMBDA h : Eligible(h.k, host) /\ FindIn(h.v, q) # 0)

\* The pattern of the route rt.find matched.
MatchedRoute(tables, q) == tables[1].v[FindIn(tables[1].v, q)].k

\* The atoms of the first segment of a path.
SegLen(path) ==
    IF \E i \in 1..Len(path) : path[i] = "/"
    THEN (CHOOSE i \in 1..Len(path) : path[i] = "/" /\ \A j \in 1..(i - 1) : path[j] # "/") - 1
    ELSE Len(path)

\* find-my-way: params['*'] of a match, what the wildcard of the pattern took.
RECURSIVE Wildcard(_, _)
Wildcard(pat, path) ==
    IF pat = << >> THEN << >>
    ELSE IF Head(pat) = "*" THEN path
    ELSE IF Head(pat) \in ParamAtoms
         THEN Wildcard(Tail(pat), SubSeq(path, SegLen(path) + 1, Len(path)))
    ELSE Wildcard(Tail(pat), Tail(path))

\* The run-time state of the composed function data.fn: the one already
\* running, or a new one with its own pool when _update composed another.
Serve(R, chain) == IF R.chain = chain THEN R ELSE [NoRuntime EXCEPT !.chain = chain]

\* dispatch, `data.fn(ctx, next)`: the composed chain of the matched route
\* is invoked with the request's path and params.
RouteCallWith(method, q, tables) ==
    /\ tables # << >>
    /\ Branch(opts["r0"], method, MatchIn(tables, q).store) = "route"
    /\ pooled' = ComposedInvoke(Serve(pooled, DataOf(MatchIn(tables, q).store, method).fn),
                                q, Wildcard(MatchedRoute(tables, q), q), FALSE)
    /\ UNCHANGED <<cfgvars, req, urls, urlFor, inst, url>>

RouteCall(method, q) ==
    /\ live["r0"]
    /\ RouteCallWith(method, q, EligibleTables(World, "r0", "", q))

\* ------------------------------------------------------------------ SpecMount
\* r0 with up to two middleware (the first on every path, the second on /a) and a handler
\* mounted at /a, written '/a', '/a/' or '/a/*'; requests for /a/b and
\* /a/b/c.  A handler calls the next it was given while it runs and
\* settles, by returning or by throwing, after what it called has settled.

MaxUseMount == 2

MaxInvocationsMount == 2

PathABC == <<"/", "a", "/", "b", "/", "c">>

PathAB == <<"/", "a", "/", "b">>

InitMount == Constructed([r \in Routers |-> DefaultOpts])

MountUse ==
    /\ pooled.invs = << >>
    /\ Len(middlewares["r0"]) < MaxUseMount
    /\ Use("r0", <<IF middlewares["r0"] = << >> THEN << >> ELSE PathA>>,
           <<Mw(Len(middlewares["r0"]) + 1)>>, << >>)

MountMount ==
    \E p \in {PathA, PathA \o <<"/">>, PathA \o <<"/", "*">>} :
        /\ pooled.invs = << >>
        /\ routes["r0"] = << >>
        /\ Mount("r0", <<p>>, << >>, <<Handler(1)>>)

MountMiddleware == Middleware("r0")

MountRequest ==
    \E method \in {"get", "post"}, q \in {PathAB, PathABC} :
        /\ Len(pooled.invs) < MaxInvocationsMount
        /\ RouteCall(method, q)

MountNext ==
    \E a \in 1..Len(pooled.acts) :
        /\ pooled.acts[a].done = ""
        /\ HandlerCallsNext(a, 1)

MountHandlerSettles ==
    \E a \in 1..Len(pooled.acts), ok \in BOOLEAN :
        /\ \A c \in MountChild(pooled, a) : pooled.acts[c].done # ""
        /\ HandlerSettles(a, ok)

MountMountSettles == \E a \in 1..Len(pooled.acts) : MountSettles(a)

MountComposedSettles == \E n \in 1..Len(pooled.invs) : ComposedSettles(n)

NextMount ==
    \/ MountUse
    \/ MountMount
    \/ MountMiddleware
    \/ MountRequest
    \/ MountNext
    \/ MountHandlerSettles
    \/ MountMountSettles
    \/ MountComposedSettles

SpecMount == InitMount /\ [][NextMount]_vars

\* ------------------------------------------------------------------ C17

\* The call a ran a step of the chain that comes before the Mount step.
BeforeMount(R, a) ==
    \E j \in (R.acts[a].idx + 1)..(Len(R.chain) - 1) : IsMount(R.chain, j)

\* The call a ran the handler given to mount().
MountedHandler(R, a) ==
    R.acts[a].idx < Len(R.chain) /\ R.chain[R.acts[a].idx + 1].fn = Handler(1)

\* The next() the call a made has settled.
NextSettled(R, a) ==
    MountChild(R, a) # {} /\ \A c \in MountChild(R, a) : R.acts[c].done # ""

\* C17: a handler mounted at /a is called for /a/rest while the context's
\* path is '/rest'; the path differs from the original only while a Mount
\* step waits for its next(), so it is the original again once that promise
\* has settled by returning or by throwing; every middleware before the
\* Mount step is called with the original path and finds it again when the
\* next() it called has settled.
MountRestoresPath ==
    /\ \A a \in 1..Len(pooled.acts) :
           /\ MountedHandler(pooled, a) =>
                  /\ pooled.acts[a].saw = <<"/">> \o pooled.invs[pooled.acts[a].ctx].rest
                  /\ pooled.invs[pooled.acts[a].ctx].orig = PathA \o pooled.acts[a].saw
           /\ (IsMount(pooled.chain, pooled.acts[a].idx) /\ pooled.acts[a].done # "") =>
                  pooled.invs[pooled.acts[a].ctx].path = pooled.invs[pooled.acts[a].ctx].orig
           /\ BeforeMount(pooled, a) =>
                  /\ pooled.acts[a].saw = pooled.invs[pooled.acts[a].ctx].orig
                  /\ NextSettled(pooled, a) =>
                         pooled.invs[pooled.acts[a].ctx].path
                             = pooled.invs[pooled.acts[a].ctx].orig
    /\ \A n \in 1..Len(pooled.invs) :
           pooled.invs[n].path # pooled.invs[n].orig =>
               \E a \in 1..Len(pooled.acts) :
                   /\ pooled.acts[a].ctx = n
                   /\ IsMount(pooled.chain, pooled.acts[a].idx)
                   /\ pooled.acts[a].done = ""

\* Reached: the mounted handler was called for /a/b/c with the path /b/c
\* and threw, and a middleware before the Mount step, still running, has
\* the original path back.
MountRestoresPathWitness ==
    \E a, m \in 1..Len(pooled.acts) :
        /\ MountedHandler(pooled, a)
        /\ pooled.acts[a].saw = <<"/", "b", "/", "c">>
        /\ pooled.acts[a].done = "threw"
        /\ pooled.acts[m].ctx = pooled.acts[a].ctx
        /\ BeforeMount(pooled, m)
        /\ NextSettled(pooled, m)
        /\ pooled.acts[m].done = ""
        /\ pooled.invs[pooled.acts[m].ctx].path = PathABC

\* ------------------------------------------------------------------ router.js: urlFor
\* A name is the sequence of its dot-separated parts, a leading "." a part
\* of its own; params is an object of values; options holds host ("" when
\* not given) and absolute.

\* Names every plain object inherits from Object.prototype.
ObjectPrototype == {<<"constructor">>, <<"toString">>}

\* route_fn(params), from pathToRegexp.tokensToFunction: every parameter of
\* the path replaced by its value.
Compile(path, params) ==
    [i \in 1..Len(path) |->
        IF path[i] \in ParamAtoms THEN Get(params, PropKey(path[i])) ELSE path[i]]

\* The compiled path or host function throws a TypeError: a parameter of
\* the path or the variable of a host pattern has no value.
Uncompilable(e, params, given) ==
    \/ \E a \in Elems(e.path) \cap ParamAtoms : ~Has(params, PropKey(a))
    \/ given = "" /\ HostRich(e.host) /\ ~Has(params, PropKey(HostVars(e.host)[1]))

\* urlFor, the loop over Object.entries(params): what goes into the query.
QueryOf(e, params) ==
    SelectSeq(params, LAMBDA x : x.k \notin Elems(e.params)
                                 /\ x.k \notin Elems(HostVars(e.host)))

\* urlFor, lines 1273-1279: the host the URL is for.
UrlHost(e, params, router_host, source_host) ==
    IF HostRich(e.host) THEN HostReverse(e.host, params)
    ELSE IF e.host # "" THEN e.host
    ELSE IF router_host # "" THEN router_host
    ELSE source_host

\* A faulty variant of CarriedHost: a host only when options.absolute is set.
CarriedHostOnDemand(url_host, absolute, source_host) ==
    IF url_host # "" /\ absolute THEN url_host ELSE ""

\* urlFor, lines 1281-1283: options.host is set when there is a host and it
\* is asked for or differs from the host of the request.
CarriedHost(url_host, absolute, source_host) ==
    IF url_host # "" /\ (absolute \/ url_host # source_host) THEN url_host ELSE ""

UrlFailed(name, known, error) ==
    [error |-> error, name |-> name, known |-> known,
     entry |-> [params |-> << >>, path |-> << >>, host |-> ""],
     host |-> "", pathname |-> << >>, query |-> << >>]

\* urlFor from the destructuring on, for the entry e of the registry: the
\* options handed to url.format.
UrlOf(name, e, params, options, router_host, source_host) ==
    IF Uncompilable(e, params, options.host) THEN UrlFailed(name, TRUE, "TypeError")
    ELSE [error |-> "", name |-> name, known |-> TRUE, entry |-> e,
          host |-> IF options.host # "" THEN options.host
                   ELSE CarriedHost(UrlHost(e, params, router_host, source_host),
                                    options.absolute, source_host),
          pathname |-> Compile(e.path, params),
          query |-> QueryOf(e, params)]

\* Router.prototype.urlFor(name, params, options, source_host): this._named
\* is a plain object, so `this._named[name]` also finds what the object
\* inherits, which cannot be destructured.
UrlFor(W, r, name, params, options, source_host) ==
    IF Has(W.m_named[r], name)
    THEN UrlOf(name, Get(W.m_named[r], name), params, options, W.opts[r].host, source_host)
    ELSE IF name \in ObjectPrototype THEN UrlFailed(name, FALSE, "TypeError")
    ELSE UrlFailed(name, FALSE, "No such named route")

\* URLFor.urlFor (middleware()): a name that starts with '.' is put behind
\* the name_prefix of the route that handles the request.
ContextName(name, name_prefix) ==
    IF name # << >> /\ Head(name) = "."
    THEN (IF name_prefix # << >> THEN name_prefix \o Tail(name) ELSE Tail(name))
    ELSE name

\* ctx.urlFor(name, params, options), called by a handler of the route the
\* request was dispatched to.
ContextUrlFor(name, params, options) ==
    /\ req.phase = "pending"
    /\ req.branch = "route"
    /\ urlFor
    /\ url' = [called |-> TRUE,
               call   |-> [name |-> name, name_prefix |-> req.name_prefix, params |-> params,
                           options |-> options, source_host |-> req.host],
               result |-> UrlFor(World, "r0", ContextName(name, req.name_prefix), params,
                                 options, req.host)]
    /\ UNCHANGED <<cfgvars, req, urls, urlFor, inst, pooled>>

\* ------------------------------------------------------------------ SpecUrl
\* r0 (named v1 or unnamed, with the host x.h or none) and r1 (named shop,
\* prefix /s, with a host pattern or none) nested in it; a route x on /a and a route y
\* on /a/:p, each on either router and with the host y.h or none of its
\* own, registered before the one request, whose handler calls ctx.urlFor
\* once.

MaxRoutesUrl == 2

MaxRequestsUrl == 1

UrlNames ==
    {<<"x">>, <<".", "x">>, <<"shop", "x">>, <<"v1", "shop", "y">>, <<".", "y">>,
     <<"constructor">>, <<"nope">>}

UrlParams ==
    {<< >>,
     <<[k |-> ":p", v |-> "x"], [k |-> "z", v |-> "1"]>>,
     <<[k |-> "s", v |-> "y"], [k |-> ":p", v |-> "x"]>>,
     <<[k |-> "0", v |-> "y"], [k |-> "z", v |-> "1"]>>}

UrlOptions ==
    {[host |-> "", absolute |-> FALSE], [host |-> "", absolute |-> TRUE],
     [host |-> "y.h", absolute |-> FALSE]}

InitUrl ==
    \E n0 \in {"", "v1"}, h0 \in {"", "x.h"}, h1 \in {"", ":s.h", "(.*).h"} :
        Constructed([r \in Routers |->
                        IF r = "r0" THEN NewOpts(<< >>, n0, h0, FALSE, TRUE, "default", "default")
                        ELSE IF r = "r1"
                        THEN NewOpts(<<"/", "s">>, "shop", h1, FALSE, TRUE, "default", "default")
                        ELSE DefaultOpts])

UrlNest ==
    /\ req.phase = "idle"
    /\ nested["r0"] = << >>
    /\ Use("r0", << << >> >>, << >>, <<"r1">>)

UrlVerb ==
    \E r \in {"r0", "r1"}, n \in {"x", "y"}, h \in {"", "y.h"} :
        /\ req.phase = "idle"
        /\ Len(routes["r0"]) + Len(routes["r1"]) < MaxRoutesUrl
        /\ Verb(r, "get", n, <<IF n = "x" THEN PathA ELSE PathAP>>,
                IF h = "" THEN << >> ELSE <<[k |-> "host", v |-> h]>>, <<Own(r)>>)

UrlMiddleware == Middleware("r0")

UrlRequest ==
    \E host \in {"", "x.h"}, q \in {PathA, <<"/", "a", "/", "x">>, <<"/", "s", "/", "a">>} :
        /\ urls.acquired < MaxRequestsUrl
        /\ DispatchOn(host, "get", q, FALSE)

UrlCall ==
    \E name \in UrlNames, params \in UrlParams, options \in UrlOptions :
        /\ ~url.called
        /\ ContextUrlFor(name, params, options)

UrlSettle == \E ok \in BOOLEAN : DispatchSettled(ok)

NextUrl ==
    \/ UrlNest
    \/ UrlVerb
    \/ UrlMiddleware
    \/ UrlRequest
    \/ UrlCall
    \/ UrlSettle

SpecUrl == InitUrl /\ [][NextUrl]_vars

\* ------------------------------------------------------------------ C18

\* The name of a router as a name part, nothing when it has none.
Named(r) == IF opts[r].name = "" THEN << >> ELSE <<opts[r].name>>

\* The names of the named routers from r0 down to r, r0 or the r1 nested in it.
NamespaceOf(r) == IF r = "r0" THEN Named("r0") ELSE Named("r0") \o Named("r1")

\* Every named route of a router in the tree of r0 is in the registry of r0
\* under the names of its named ancestors followed by its own.
RegisteredUnderNamespace ==
    \A r \in Subtree("r0") : \A rt \in Elems(routes[r]) : \A m \in Elems(rt.ms) :
        GetOr(m.v.options, "name", "") # "" =>
            /\ Has(m_named["r0"], NamespaceOf(r) \o <<Get(m.v.options, "name")>>)
            /\ Get(m_named["r0"], NamespaceOf(r) \o <<Get(m.v.options, "name")>>).path
                   \in {opts[r].prefix \o q : q \in Elems(rt.paths)}

\* A name with a leading '.' gives what the name behind the namespace of the
\* handling route gives, and the name itself when the namespace is empty.
RelativeNameResolves ==
    /\ req.branch = "route" => \E r \in Subtree("r0") : req.name_prefix = NamespaceOf(r)
    /\ (url.called /\ Head(url.call.name) = ".") =>
           url.result = UrlFor(World, "r0", url.call.name_prefix \o Tail(url.call.name),
                               url.call.params, url.call.options, url.call.source_host)

\* A name that is not in the registry fails with 'No such named route'.
UnknownNameFails ==
    (url.called /\ ~url.result.known) => url.result.error = "No such named route"

\* C18 as claimed: a named route is registered at the root under the dotted
\* names of its named ancestors and its own, urlFor('.x') in a request handled
\* by a route with the namespace p resolves as urlFor('p.x') (as 'x' when p
\* is empty), and a name that resolves to no registered route fails with the
\* error 'No such named route'.
NamesResolveInNamespace ==
    /\ RegisteredUnderNamespace
    /\ RelativeNameResolves
    /\ UnknownNameFails

\* ------------------------------------------------------------------ C19

\* The call of urlFor gave a URL and named no host in its options.
UrlWithoutHostOption == url.called /\ url.result.error = "" /\ url.call.options.host = ""

\* The host the precedence of the claim gives the call: the pattern host of
\* the route with the params in it, else its literal host, else the host of
\* the router urlFor is called on, else the host of the request.
TargetHost ==
    IF HostRich(url.result.entry.host)
    THEN UnderH(Get(url.call.params, PropKey(HostVars(url.result.entry.host)[1])))
    ELSE IF url.result.entry.host # "" THEN url.result.entry.host
    ELSE IF opts["r0"].host # "" THEN opts["r0"].host
    ELSE url.call.source_host

Consumed ==
    {PropKey(n) : n \in Elems(url.result.entry.params)
                       \cup Elems(HostVars(url.result.entry.host))}

\* C20 as claimed: every entry of params that is neither a parameter of the
\* path nor a variable of the host pattern is in the query of the URL, and
\* no parameter the path or the host consumed is.
QueryHoldsTheUnconsumed ==
    (url.called /\ url.result.error = "") =>
        /\ \A x \in Elems(url.call.params) :
               x.k \notin Consumed => x \in Elems(url.result.query)
        /\ \A x \in Elems(url.result.query) : x.k \notin Consumed

\* ------------------------------------------------------------------ SpecReg
\* r0 and r1 (nested in r0 at '' or not), routes on /a registered with
\* get or post, with a leading name or a name in the options or neither, and
\* with the host x.h or y.h in the options or none.

MaxRoutesReg == 2

InitReg == Constructed([r \in Routers |-> DefaultOpts])

\* The options object of a call: name and host, each left out when "".
RegOptions(name, host) ==
    (IF name = "" THEN << >> ELSE <<[k |-> "name", v |-> name]>>)
        \o (IF host = "" THEN << >> ELSE <<[k |-> "host", v |-> host]>>)

RegNest ==
    /\ nested["r0"] = << >>
    /\ Nest("r0", << << >> >>, "r1")

RegVerb ==
    \E r \in {"r0", "r1"}, method \in {"get", "post"}, lead \in {"", "x"},
       name \in {"", "x"}, host \in {"", "x.h", "y.h"} :
        /\ Len(routes["r0"]) + Len(routes["r1"]) < MaxRoutesReg
        /\ Verb(r, method, lead, <<PathA>>, RegOptions(name, host), <<Own(r)>>)

RegMiddleware == Middleware("r0")

NextReg ==
    \/ RegNest
    \/ RegVerb
    \/ RegMiddleware

SpecReg == InitReg /\ [][NextReg]_vars

\* The routers whose routes r0 serves.
RegTree == {"r0"} \cup Children("r0")

\* The hosts the method entries registered for /a in r0's tree declare.
DeclaredHosts ==
    {GetOr(rt.ms[j].v.options, "host", "") :
        rt \in UNION {Elems(routes[r]) : r \in RegTree}, j \in {1}} \ {""}

\* C21: method entries of one path may each declare a host as long as it is
\* the same host: a registration call fails only when two entries of the path
\* declare different hosts, and when r0 is live and the entries declare one
\* host, a request for that host finds the route.
SameHostIsAccepted ==
    /\ failed => Cardinality(DeclaredHosts) > 1
    /\ \A h \in DeclaredHosts :
           (live["r0"] /\ DeclaredHosts = {h}) => Match(World, "r0", h, PathA).found

\* The named registries and what urlFor(name) gives on r0 after a call.
Registry(W) == [named |-> W.m_named,
                url   |-> UrlFor(W, "r0", <<"x">>, << >>, [host |-> "", absolute |-> FALSE], "")]

\* C22: verb(name, path, options, ...handlers) and verb(path, {...options,
\* name}, ...handlers) leave the same named registries, and urlFor(name)
\* gives the same.
NameInOptionsIsLeadingName ==
    \A r \in {"r0", "r1"}, method \in {"get", "post"}, host \in {"", "x.h"} :
        Registry(DoVerb(World, r, method, "x", <<PathA>>, RegOptions("", host), <<Own(r)>>))
            = Registry(DoVerb(World, r, method, "", <<PathA>>, RegOptions("x", host), <<Own(r)>>))

\* ------------------------------------------------------------------ SpecNest
\* The three routers nested into each other (a router into itself included)
\* with nest or use, at '' or at /a, and routes on /a; the configuration ends
\* with the first call that throws.

MaxNestings == 2

MaxRoutesNest == 1

InitNest == Constructed([r \in Routers |-> DefaultOpts])

\* The number of parent links of the routers.
Nestings == Len(parents["r0"]) + Len(parents["r1"]) + Len(parents["r2"])

\* c is nested in r at the path p.
NestedAt(r, p, c) == c \in Elems(GetOr(nested[r], p, << >>))

NestNest ==
    \E r \in Routers, c \in Routers, p \in {<< >>, PathA} :
        /\ ~failed
        /\ Nestings < MaxNestings
        /\ ~NestedAt(r, p, c)
        /\ Nest(r, <<p>>, c)

NestUse ==
    \E r \in Routers, c \in Routers :
        /\ ~failed
        /\ Nestings < MaxNestings
        /\ ~NestedAt(r, << >>, c)
        /\ Use(r, << << >> >>, <<Mw(1)>>, <<c>>)

NestVerb ==
    \E r \in Routers :
        /\ ~failed
        /\ Len(routes["r0"]) + Len(routes["r1"]) + Len(routes["r2"]) < MaxRoutesNest
        /\ Verb(r, "get", "", <<PathA>>, << >>, <<Own(r)>>)

NestMiddleware == ~failed /\ Middleware("r0")

NextNest ==
    \/ NestNest
    \/ NestUse
    \/ NestVerb
    \/ NestMiddleware

SpecNest == InitNest /\ [][NextNest]_vars

\* The parents of the routers of S.
ParentsOf(S) == UNION {Elems(parents[x]) : x \in S}

RECURSIVE ParentsWithin(_, _)
ParentsWithin(S, n) == IF n = 0 THEN S ELSE ParentsWithin(S \cup ParentsOf(S), n - 1)

\* The routers _updateParents of r reaches: its parents, their parents, ...
Above(r) == ParentsWithin(ParentsOf({r}), Cardinality(Routers))

\* C23: the nesting graph stays acyclic (a call that would close a cycle is
\* rejected), so no router is among the routers its own rebuild propagates to.
NestingStaysAcyclic == \A r \in Routers : r \notin Above(r)

\* ------------------------------------------------------------------ SpecParam
\* r1 and r2 nested in the live root r0 at '', paramware for :p and :q on r0
\* and r1, routes on /a/:p and /:p/:q registered with get or post on r1 and r2.

MaxRoutesParam == 2

PathPQ == <<"/", ":p", "/", ":q">>

InitParam == Constructed([r \in Routers |-> DefaultOpts])

\* How many paramware handlers were registered so far.
ParamRegs ==
    FoldL(LAMBDA n, r : FoldL(LAMBDA m, e : m + Len(e.v), n, paramwares[r]),
          0, <<"r0", "r1", "r2">>)

ParamNest ==
    \E c \in {"r1", "r2"} :
        /\ parents[c] = << >>
        /\ Nest("r0", << << >> >>, c)

\* param(name, fn): the handler carries the number of its registration.
ParamParam ==
    \E r \in {"r0", "r1"}, pa \in ParamAtoms :
        /\ ~Has(paramwares[r], pa)
        /\ Param(r, pa, <<Fn("fn", r, ParamRegs + 1, "")>>)

ParamVerb ==
    \E r \in {"r1", "r2"}, method \in {"get", "post"}, path \in {PathAP, PathPQ} :
        /\ Len(routes["r1"]) + Len(routes["r2"]) < MaxRoutesParam
        /\ Verb(r, method, "", <<path>>, << >>, <<Own(r)>>)

ParamMiddleware == Middleware("r0")

NextParam ==
    \/ ParamNest
    \/ ParamParam
    \/ ParamVerb
    \/ ParamMiddleware

SpecParam == InitParam /\ [][NextParam]_vars

\* The paramware handlers of a composed chain, in the order they run.
ParamwareOf(fn) == SelectSeq(ChainFns(fn), LAMBDA f : f.kind = "pw")

\* C27: the chain of a route holds paramware only for parameters its path
\* declares, each handler called with the value of the parameter it was
\* registered for, and it holds the paramware that the router of the route
\* and every router above it registered for the parameters the path declares.
ParamwareIffDeclared ==
    \A e \in Dispatched("r0") :
        /\ \A f \in Elems(ParamwareOf(e.fn)) : f.val \in Elems(RouteParams(e.path))
        /\ \A N \in PathUp(OwnerOf(ChainFns(e.fn))) : \A pa \in Elems(RouteParams(e.path)) :
               Elems(GetOr(paramwares[N], pa, << >>)) \subseteq Elems(ParamwareOf(e.fn))

\* The position of a parameter among the parameters a path declares.
DeclaredAt(path, pa) == CHOOSE i \in 1..Len(RouteParams(path)) : RouteParams(path)[i] = pa

\* C28: the paramware of a chain runs in the order the path declares the
\* parameters, whichever routers registered it, and the handlers of one
\* parameter in the order of their registration.
ParamwareInParameterOrder ==
    \A e \in Dispatched("r0") :
        \A i, j \in 1..Len(ParamwareOf(e.fn)) :
            i < j =>
                LET f == ParamwareOf(e.fn)[i]
                    g == ParamwareOf(e.fn)[j]
                IN  \/ DeclaredAt(e.path, f.val) < DeclaredAt(e.path, g.val)
                    \/ f.val = g.val /\ f.n < g.n

\* ------------------------------------------------------------------ SpecFail
\* compose() called on its own with a middleware filtered to /a and two
\* handlers; invocations for /a one after the other (with or without
\* request.path on the context).  A running handler calls its next at most
\* once, and returns, throws its own error, or settles as its next() did.

MaxInvocationsFail == 2

FailChain ==
    ComposeOrder(<<[filtered |-> TRUE, rich |-> FALSE, test |-> PathA, fn |-> Handler(0)]>>,
                 << >>, << >>, <<Handler(1), Handler(2)>>)

InitFail == Constructed([r \in Routers |-> DefaultOpts])

FailCompose == Compose(FailChain)

FailInvoke ==
    \E bad \in BOOLEAN :
        /\ Len(pooled.invs) < MaxInvocationsFail
        /\ InFlight(pooled) = {}
        /\ PooledCall(PathA, << >>, bad)

FailNext ==
    \E a \in 1..Len(pooled.acts) :
        /\ pooled.acts[a].done = ""
        /\ pooled.invs[pooled.acts[a].by].state = "running"
        /\ HandlerCallsNext(a, 1)

FailHandlerSettles == \E a \in 1..Len(pooled.acts), ok \in BOOLEAN : HandlerSettles(a, ok)

FailHandlerPasses == \E a, c \in 1..Len(pooled.acts) : HandlerPasses(a, c)

FailSettles == \E n \in 1..Len(pooled.invs) : ComposedSettles(n)

NextFail ==
    \/ FailCompose
    \/ FailInvoke
    \/ FailNext
    \/ FailHandlerSettles
    \/ FailHandlerPasses
    \/ FailSettles

SpecFail == InitFail /\ [][NextFail]_vars

\* The error e went from call c up to the call composed made, every handler
\* on the way settling with it (none caught or replaced it).
RECURSIVE Uncaught(_, _, _)
Uncaught(R, c, e) ==
    IF R.acts[c].err # e THEN FALSE
    ELSE IF R.acts[c].parent = 0 THEN TRUE
    ELSE Uncaught(R, R.acts[c].parent, e)

\* C29: a settled invocation of a composed chain is rejected exactly when the
\* promise of run(0) was, and with its error; the error a handler threw that
\* no handler above it caught is the error the invocation is rejected with;
\* and no handler behind one that threw without calling its next was run.
FailurePropagates ==
    /\ \A n \in 1..Len(pooled.invs) :
           pooled.invs[n].state # "running" =>
               /\ (pooled.invs[n].state = "rejected") <=> (RootError(pooled, n) # NoError)
               /\ pooled.invs[n].err = RootError(pooled, n)
               /\ \A c \in 1..Len(pooled.acts) :
                      (pooled.acts[c].by = n /\ Uncaught(pooled, c, c))
                          => pooled.invs[n].state = "rejected" /\ pooled.invs[n].err = c
    /\ \A c, d \in 1..Len(pooled.acts) :
           (/\ pooled.acts[c].by = pooled.acts[d].by
            /\ pooled.acts[c].done = "threw"
            /\ pooled.acts[c].calls = 0)
               => pooled.acts[d].idx <= pooled.acts[c].idx

\* Reached: the last handler of the chain threw, the two before it settled
\* as their next() did, and the invocation was rejected with that error.
FailurePropagatesWitness ==
    \E n \in 1..Len(pooled.invs) : \E c \in 1..Len(pooled.acts) :
        /\ pooled.invs[n].state = "rejected"
        /\ pooled.invs[n].err = c
        /\ pooled.acts[c].by = n
        /\ pooled.acts[c].idx = 2

\* ------------------------------------------------------------------ C30

\* The step is a call of dispatch for a path on which all() registered a route.
AllRequest ==
    /\ DispatchCalled
    /\ "all" \in RegisteredOn(req'.path)

\* Every method, as the Allow header names them.
EveryMethod == [i \in 1..Len(METHODS) |-> Upper(METHODS[i])]

\* C30: on a path with an all() route a request is served by the handler
\* registered for its method when there is one and by the all() handler when
\* there is none, except that an OPTIONS request without a handler of its
\* own, while OPTIONS handling is enabled, is answered by the OPTIONS handler
\* (the built-in one with every method in the Allow list).
AllServesEveryMethod ==
    [][AllRequest =>
          IF req'.method \in RegisteredOn(req'.path)
          THEN req'.branch = "route" /\ req'.route = req'.method
          ELSE IF req'.method = "options" /\ opts["r0"].handleOptions # "off"
          THEN /\ req'.branch \in {"handleOptions", "handleOptions:fn"}
               /\ req'.branch = "handleOptions" => req'.allow = EveryMethod
          ELSE req'.branch = "route" /\ req'.route = "all"]_vars

\* ------------------------------------------------------------------ C26

\* _update, lines 431-442, read from the tables: the constructor of N for a
\* key is queued for a route of `owner` served by `root`.
Applicable(N, owner, root, options, key) ==
    /\ N \in PathUp(owner) \cap Subtree(root)
    /\ HasCtor(N, key)
    /\ \A x \in Below(owner, N) : ~Exclusive(x, key)
    /\ Has(options, key) \/ DefaultOn(Below(owner, N) \cup {N}, key)

\* How many handlers of the constructor c a list of functions holds.
HandlersOf(fns, c) == Cardinality({i \in 1..Len(fns) : fns[i].kind = "dw" /\ fns[i].id = c})

\* How many times the constructor c is registered for the key on N.
Registered(N, key, c) ==
    Cardinality({i \in 1..Len(GetOr(datawares[N], key, << >>)) : Get(datawares[N], key)[i] = c})

\* C26: the constructor registered once for the key on a router N has one
\* handler in the chain of every route of N's subtree it applies to and none
\* in any other chain, at every nesting depth and after every rebuild; a
\* request to the route runs that handler once.
ConstructorContributesOnce ==
    \A root \in LiveRouters : \A e \in Dispatched(root) : \A N \in Routers :
        Registered(N, DataKey, CtorOf(N)) <= 1 =>
            /\ HandlersOf(ChainFns(e.fn), CtorOf(N)) =
                   IF Applicable(N, OwnerOf(ChainFns(e.fn)), root, e.options, DataKey)
                   THEN 1 ELSE 0
            /\ HandlersOf(RunOrder(e.fn, e.path), CtorOf(N)) =
                   HandlersOf(ChainFns(e.fn), CtorOf(N))

\* Reached: r0 serves a route of r2, two nestings below it, whose chain holds
\* the handler of the constructor of r0 and the one of r2, each once.
ConstructorContributesOnceWitness ==
    /\ live["r0"]
    /\ \A N \in {"r0", "r2"} : Registered(N, DataKey, CtorOf(N)) = 1
    /\ \E e \in Dispatched("r0") :
           /\ OwnerOf(ChainFns(e.fn)) = "r2"
           /\ \A N \in {"r0", "r2"} : HandlersOf(RunOrder(e.fn, e.path), CtorOf(N)) = 1

\* ------------------------------------------------------------------ SpecSort
\* Dataware keys A and B on r0, each registered once with or without a
\* weight: A with a constructor of fresh handlers (A0) or with the one that
\* hands out the same function (cS), B with two constructors of fresh
\* handlers (B0, B1) or with one whose handlers carry a weight of their own
\* (cZ: 0, cG: 3, cArr: none and -1); sortData giving a key another weight;
\* one route that asks for both keys.

MaxRoutesSort == 1

SortCtors(key) ==
    IF key = "A" THEN {<<"A0">>, <<"cS">>}
    ELSE {<<"B0", "B1">>, <<"cZ">>, <<"cG">>, <<"cArr">>}

InitSort == Constructed([r \in Routers |-> DefaultOpts])

SortUseData ==
    \E key \in {"A", "B"}, w \in {<< >>, <<5>>, <<0 - 2>>} : \E cs \in SortCtors(key) :
        /\ ~Has(datawares["r0"], key)
        /\ UseData("r0", key, w, cs)

SortSortData == \E key \in {"A", "B"}, w \in {1, 0 - 3} : SortData("r0", key, w)

SortVerb ==
    /\ Len(routes["r0"]) < MaxRoutesSort
    /\ Verb("r0", "get", "", <<PathA>>,
            <<[k |-> "A", v |-> "1"], [k |-> "B", v |-> "1"]>>, <<Own("r0")>>)

SortMiddleware == Middleware("r0")

NextSort ==
    \/ SortUseData
    \/ SortSortData
    \/ SortVerb
    \/ SortMiddleware

SpecSort == InitSort /\ [][NextSort]_vars

\* The constructor a dataware handler came from.
CtorOfFn(f) == IF f.id \in SharedFns THEN "cS" ELSE f.id

\* The `sort` property the constructor gave the handler, << >> for none.
OwnSort(f) == (CHOOSE t \in Elems(CtorOut(CtorOfFn(f), f.val)) : t.fn = f).sort

\* Where r0 holds the constructor of a handler: the position of its key in
\* Object.entries(this.datawares) and its position among the constructors
\* of the key.
KeyAt(f) == CHOOSE i \in 1..Len(datawares["r0"]) : CtorOfFn(f) \in Elems(datawares["r0"][i].v)

CtorAt(f) ==
    CHOOSE i \in 1..Len(datawares["r0"][KeyAt(f)].v) :
        datawares["r0"][KeyAt(f)].v[i] = CtorOfFn(f)

\* The weight registered for the key of a handler: the number useData or
\* sortData gave last, 0 when none was given.
KeyWeight(f) == SortKey(GetOr(dataware_sort["r0"], datawares["r0"][KeyAt(f)].k, << >>))

\* a is collected before b: keys in definition order, the constructors of a
\* key in registration order, the handlers of a constructor in yield order.
CollectedBefore(a, b) ==
    \/ KeyAt(a) < KeyAt(b)
    \/ KeyAt(a) = KeyAt(b) /\ CtorAt(a) < CtorAt(b)
    \/ KeyAt(a) = KeyAt(b) /\ CtorAt(a) = CtorAt(b) /\ a.n < b.n

\* The dataware handlers of a chain, in chain order.
DatawareOf(fn) == SelectSeq(ChainFns(fn), LAMBDA f : f.kind = "dw")

\* ------------------------------------------------------------------ C24

\* C24 as claimed: the chain of a route holds every handler its constructors
\* yield, and the handlers without a weight of their own stand in ascending
\* order of the weight last given to their key (0 when none was given), the
\* ones of equal weight in the order they were collected.
ChainSortedByKeyWeight ==
    live["r0"] =>
        \A e \in Dispatched("r0") :
            /\ \A x \in Elems(datawares["r0"]) : \A c \in Elems(x.v) :
                   Has(e.options, x.k) =>
                       \A t \in Elems(CtorOut(c, Get(e.options, x.k))) :
                           t.fn \in Elems(DatawareOf(e.fn))
            /\ \A i, j \in 1..Len(DatawareOf(e.fn)) :
                   (/\ i < j
                    /\ OwnSort(DatawareOf(e.fn)[i]) = << >>
                    /\ OwnSort(DatawareOf(e.fn)[j]) = << >>) =>
                       \/ KeyWeight(DatawareOf(e.fn)[i]) < KeyWeight(DatawareOf(e.fn)[j])
                       \/ /\ KeyWeight(DatawareOf(e.fn)[i]) = KeyWeight(DatawareOf(e.fn)[j])
                          /\ CollectedBefore(DatawareOf(e.fn)[i], DatawareOf(e.fn)[j])

\* ------------------------------------------------------------------ C25

\* The weight a handler is claimed to be positioned by.
ClaimedWeight(f) == IF OwnSort(f) # << >> THEN OwnSort(f)[1] ELSE KeyWeight(f)

\* C25 as claimed: among the handlers that are function objects of their
\* own, one that carries a weight (negative, zero or positive) stands where
\* that weight puts it and one that carries none where the weight of its key
\* puts it.
OwnWeightPositionsHandler ==
    live["r0"] =>
        \A e \in Dispatched("r0") :
            \A i, j \in 1..Len(DatawareOf(e.fn)) :
                (/\ i < j
                 /\ DatawareOf(e.fn)[i].id \notin SharedFns
                 /\ DatawareOf(e.fn)[j].id \notin SharedFns) =>
                    ClaimedWeight(DatawareOf(e.fn)[i]) <= ClaimedWeight(DatawareOf(e.fn)[j])

\* ------------------------------------------------------------------ SpecHost
\* r0 (with the host X.H or none) and r1 (with the host pattern :s.h or
\* none) nested in it at ''; routes for get and post on /a and /b, on either
\* router, with the host y.h or none of their own; then one request with a
\* Host header (or none) to the live r0.

MaxRoutesHost == 2

ReqHosts == {"", "x.h", "y.h", "z"}

InitHost ==
    \E h0 \in {"", "X.H"}, h1 \in {"", ":s.h"} :
        Constructed([r \in Routers |->
                        IF r = "r0" THEN NewOpts(<< >>, "", h0, FALSE, TRUE, "default", "default")
                        ELSE IF r = "r1"
                        THEN NewOpts(<< >>, "", h1, FALSE, TRUE, "default", "default")
                        ELSE DefaultOpts])

HostNest ==
    /\ req.phase = "idle"
    /\ nested["r0"] = << >>
    /\ Use("r0", << << >> >>, << >>, <<"r1">>)

HostVerb ==
    \E r \in {"r0", "r1"}, m \in {"get", "post"}, p \in {PathA, PathB}, h \in {"", "y.h"} :
        /\ req.phase = "idle"
        /\ Len(routes["r0"]) + Len(routes["r1"]) < MaxRoutesHost
        /\ Verb(r, m, "", <<p>>, IF h = "" THEN << >> ELSE <<[k |-> "host", v |-> h]>>,
                <<Own(r)>>)

HostMiddleware == req.phase = "idle" /\ Middleware("r0")

HostRequest ==
    \E host \in ReqHosts, m \in {"get", "post"}, q \in {PathA, PathB} :
        /\ req.phase = "idle"
        /\ DispatchOn(host, m, q, FALSE)

HostSettle == \E ok \in BOOLEAN : DispatchSettled(ok)

NextHost ==
    \/ HostNest
    \/ HostVerb
    \/ HostMiddleware
    \/ HostRequest
    \/ HostSettle

SpecHost == InitHost /\ [][NextHost]_vars

\* ------------------------------------------------------------------ C31

\* The host of the nearest router, from the owner of a route up to the root,
\* that declares one; "" when none does.
NearestHost(owner) ==
    IF \E x \in PathUp(owner) : opts[x].host # ""
    THEN opts[CHOOSE x \in PathUp(owner) :
                  /\ opts[x].host # ""
                  /\ \A y \in PathUp(owner) : opts[y].host # "" => x \in Subtree(y)].host
    ELSE ""

\* The effective host of a route: options.host, else the nearest router's.
EffectiveHost(data) ==
    IF GetOr(data.options, "host", "") # "" THEN Get(data.options, "host")
    ELSE NearestHost(OwnerOf(ChainFns(data.fn)))

\* A route with the effective host H is for the requests with the host
\* `host`: any when H is no host, the hosts a pattern takes, the host equal
\* to a literal H whatever the case.
HostServes(H, host) ==
    IF H = "" THEN TRUE
    ELSE IF HostRich(H) THEN HostTest(H, host)
    ELSE Lower(H) = Lower(host)

\* C31 as claimed: the route whose handlers a request is given to has an
\* effective host (its options.host, else the host of the nearest router
\* that declares one) that matches the host of the request.
ServedOnlyUnderEffectiveHost ==
    req.branch = "route" => HostServes(EffectiveHost(req.data), req.host)

\* ------------------------------------------------------------------ C39

\* The elements of a sequence, each once, in the order of their first
\* occurrence.
FirstSeen(hs) == FoldL(LAMBDA l, h : IF h \in Elems(l) THEN l ELSE Append(l, h), << >>, hs)

\* The host every route of a merged table is served under, in the order the
\* route loop of _update visits the routes.
RouteHostsOf(rt) ==
    [i \in 1..Len(Positions(rt)) |->
        RouteHost(HostedMethods(rt[Positions(rt)[i][1]].v[Positions(rt)[i][2]].v),
                  rt[Positions(rt)[i][1]].k)]

\* The hosts of router._routers, in the order dispatch goes through them.
MatcherHosts(r) == [i \in 1..Len(m_routers[r]) |-> m_routers[r][i].k]

\* The matchers that are eligible for a host and hold a route for a path.
Serving(r, host, q) ==
    {i \in 1..Len(m_routers[r]) :
        Eligible(m_routers[r][i].k, host) /\ FindIn(m_routers[r][i].v, q) # 0}

\* A rebuild of router r, as it is now, throws (two methods of one of its
\* routes declare a host).
RebuildThrows(r) == UpdateOne(World, r).err

\* C39: dispatch goes through the host matchers in the order their hosts
\* were first met by the rebuild (when the rebuild of the router does not
\* throw and so ran to its end), serves the request from the first one
\* that is eligible for the host of the request and holds its path, passing
\* over the eligible ones that do not hold it, and calls the downstream next
\* exactly when no eligible matcher holds the path.
FirstServingMatcherAnswers ==
    [][DispatchCalled =>
          /\ ~RebuildThrows("r0")
                 => MatcherHosts("r0") = FirstSeen(RouteHostsOf(m_routes["r0"]))
          /\ IF Serving("r0", req'.host, req'.path) = {}
             THEN req'.branch = "none" /\ req'.nexts = 1
             ELSE /\ req'.branch # "none"
                  /\ req'.table =
                         m_routers["r0"][CHOOSE i \in Serving("r0", req'.host, req'.path) :
                                             \A j \in Serving("r0", req'.host, req'.path) :
                                                 i <= j].k]_vars

\* Reached: a request served from a matcher behind an eligible one that does
\* not hold its path.
FirstServingMatcherAnswersWitness ==
    /\ req.branch = "route"
    /\ \E i, j \in 1..Len(m_routers["r0"]) :
           /\ i < j
           /\ Eligible(m_routers["r0"][i].k, req.host)
           /\ FindIn(m_routers["r0"][i].v, req.path) = 0
           /\ m_routers["r0"][j].k = req.table
           /\ req.table # ""

\* ------------------------------------------------------------------ C32

\* The step makes the key exclusive on N.
MadeExclusive(N) == ~Exclusive(N, DataKey) /\ Exclusive(N, DataKey)'

\* C32: when setDataExclusive makes the key exclusive on a router N, every
\* route of N's subtree a live router serves keeps, in its chain, the
\* handlers of the constructors registered for the key on N and on the
\* routers below N, and has none of a constructor registered on a proper
\* ancestor of N.
ExclusiveKeepsOwnAndBelow ==
    [][\A N \in Routers :
           MadeExclusive(N) =>
               \A root \in LiveRouters : \A e \in Dispatched(root) :
                   OwnerOf(ChainFns(e.fn)) \in Subtree(N) =>
                       \E f \in Dispatched(root)' :
                           /\ f.host = e.host /\ f.path = e.path /\ f.method = e.method
                           /\ \A M \in Subtree(N) :
                                  HandlersOf(ChainFns(f.fn), CtorOf(M)) =
                                      HandlersOf(ChainFns(e.fn), CtorOf(M))
                           /\ \A A \in Ancestors(N) :
                                  HandlersOf(ChainFns(f.fn), CtorOf(A)) = 0]_vars

\* Reached: the key is exclusive on r1, and a route of r1's subtree served
\* by r0 carries the handler of r1's constructor and none of r0's, although
\* r0 has a constructor for the key.
ExclusiveKeepsOwnAndBelowWitness ==
    /\ live["r0"]
    /\ Exclusive("r1", DataKey)
    /\ HasCtor("r0", DataKey)
    /\ \E e \in Dispatched("r0") :
           /\ OwnerOf(ChainFns(e.fn)) \in Subtree("r1")
           /\ HandlersOf(ChainFns(e.fn), CtorOf("r1")) = 1
           /\ HandlersOf(ChainFns(e.fn), CtorOf("r0")) = 0

\* ------------------------------------------------------------------ SpecFrame
\* r1 nested in r0 at /a; on either router a route on /a/:p (named, with or
\* without the dataware key in its options), a constructor, a default and
\* the exclusive flag for the key, a paramware for p and a middleware;
\* every registration rebuilds its router and the routers above it.

MaxRoutesFrame == 1

FrameRouters == {"r0", "r1"}

InitFrame == Constructed([r \in Routers |-> DefaultOpts])

FrameVerb ==
    \E r \in FrameRouters, o \in {<< >>, <<[k |-> DataKey, v |-> "5"]>>} :
        /\ Len(routes[r]) < MaxRoutesFrame
        /\ Verb(r, "get", "x", <<PathAP>>, o, <<Own(r)>>)

FrameNest ==
    /\ nested["r0"] = << >>
    /\ Nest("r0", <<PathA>>, "r1")

FrameUseData ==
    \E r \in FrameRouters :
        /\ UserCtors(r) = 0
        /\ UseData(r, DataKey, << >>, <<CtorOf(r)>>)

FrameDefaultData ==
    \E r \in FrameRouters :
        /\ ~Has(dataware_default[r], DataKey)
        /\ DefaultData(r, DataKey, DefaultOf(r))

FrameSetDataExclusive ==
    \E r \in FrameRouters :
        /\ ~Exclusive(r, DataKey)
        /\ SetDataExclusive(r, DataKey, TRUE)

FrameParam ==
    \E r \in FrameRouters :
        /\ paramwares[r] = << >>
        /\ Param(r, ":p", <<Fn("fn", r, 0, "")>>)

FrameUse ==
    \E r \in FrameRouters :
        /\ middlewares[r] = << >>
        /\ Use(r, <<PathA>>, <<Mw(IF r = "r0" THEN 1 ELSE 2)>>, << >>)

FrameMiddleware == Middleware("r0")

NextFrame ==
    \/ FrameVerb
    \/ FrameNest
    \/ FrameUseData
    \/ FrameDefaultData
    \/ FrameSetDataExclusive
    \/ FrameParam
    \/ FrameUse
    \/ FrameMiddleware

SpecFrame == InitFrame /\ [][NextFrame]_vars

\* ------------------------------------------------------------------ C33

\* Router D has in W the raw registrations and the merged view it has in V.
Untouched(V, W, D) ==
    /\ W.routes[D] = V.routes[D]
    /\ W.middlewares[D] = V.middlewares[D]
    /\ W.paramwares[D] = V.paramwares[D]
    /\ W.datawares[D] = V.datawares[D]
    /\ W.dataware_sort[D] = V.dataware_sort[D]
    /\ W.dataware_default[D] = V.dataware_default[D]
    /\ W.dataware_exclusive[D] = V.dataware_exclusive[D]
    /\ W.nested[D] = V.nested[D]
    /\ W.m_routes[D] = V.m_routes[D]
    /\ W.m_middlewares[D] = V.m_middlewares[D]
    /\ W.m_named[D] = V.m_named[D]

\* C33: a rebuild of a router P leaves every router nested under P with the
\* raw registrations and the merged view (the routes with their dataware
\* queue, exclusion set, defaults and paramware, the middleware table and
\* the named registry) it had before.
RebuildLeavesNestedUntouched ==
    \A P \in Routers : \A D \in Subtree(P) \ {P} : Untouched(World, Update(World, P), D)

\* Reached: r0 holds a route of r1 to whose dataware queue, exclusion set,
\* defaults and paramware its own rebuild added.
RebuildLeavesNestedUntouchedWitness ==
    \E e0 \in Merged("r0"), e1 \in Merged("r1") :
        /\ e0.method = e1.method
        /\ e0.d.middleware = e1.d.middleware
        /\ Len(e0.d.dataware) > Len(e1.d.dataware)
        /\ Len(e0.d.exclusive) > Len(e1.d.exclusive)
        /\ Len(e0.d.defaults) > Len(e1.d.defaults)
        /\ Len(e0.pware) > Len(e1.pware)
        /\ Len(e1.d.dataware) > 0
        /\ Len(e1.pware) > 0

\* ------------------------------------------------------------------ SpecDeep
\* r2 nested in r1 and r1 in r0, at /a, each router created with the
\* built-in mount middleware or with mountMiddleware: false; a handler
\* mounted at /b on any of them; r0 and r1 may go live.

MaxMountsDeep == 1

InitDeep ==
    \E b0, b1, b2 \in BOOLEAN :
        Constructed([r \in Routers |->
                        NewOpts(<< >>, "", "", FALSE,
                                IF r = "r0" THEN b0 ELSE IF r = "r1" THEN b1 ELSE b2,
                                "default", "default")])

DeepNest ==
    \E c \in {"r1", "r2"} :
        /\ parents[c] = << >>
        /\ Nest(ChainParent(c), <<PathA>>, c)

DeepMount ==
    \E r \in Routers, p \in {PathB, PathB \o <<"/">>} :
        /\ Len(routes[r]) < MaxMountsDeep
        /\ Mount(r, <<p>>, << >>, <<Own(r)>>)

DeepMiddleware == \E r \in {"r0", "r1"} : Middleware(r)

NextDeep ==
    \/ DeepNest
    \/ DeepMount
    \/ DeepMiddleware

SpecDeep == InitDeep /\ [][NextDeep]_vars

\* ------------------------------------------------------------------ C34

\* How many path-rewrite handlers (lib/mount.js) a list of functions holds.
MountsIn(fns) == Cardinality({i \in 1..Len(fns) : fns[i].kind = "dw" /\ fns[i].id = "Mount"})

\* C34: the chain of a route registered with mount(), whatever the depth its
\* router is nested at, holds at most one path-rewrite handler, and exactly
\* one when the router the route was registered on has the mount middleware;
\* a request runs as many as the chain holds.
MountedOnce ==
    \A root \in LiveRouters : \A e \in Dispatched(root) :
        Has(e.options, "mount") =>
            /\ MountsIn(ChainFns(e.fn)) <= 1
            /\ opts[OwnerOf(ChainFns(e.fn))].mountMiddleware => MountsIn(ChainFns(e.fn)) = 1
            /\ MountsIn(RunOrder(e.fn, e.path)) = MountsIn(ChainFns(e.fn))

\* Reached: r0 serves a handler mounted on r2, two nestings below it, with
\* one path-rewrite handler, all three routers having the mount middleware.
MountedOnceWitness ==
    /\ live["r0"]
    /\ \A r \in Routers : opts[r].mountMiddleware
    /\ \E e \in Dispatched("r0") :
           /\ Has(e.options, "mount")
           /\ OwnerOf(ChainFns(e.fn)) = "r2"
           /\ MountsIn(RunOrder(e.fn, e.path)) = 1

\* ------------------------------------------------------------------ C35

\* Composer.run(r) was accepted and the step from inst to inst' is its
\* while loop: the cursor is left on the first index at or after r whose
\* entry is unfiltered or passes its test for the request path (the length
\* of the chain when there is none), and the handler there, if any, is the
\* one handler started.
LandsFrom(r) ==
    LET chain == inst'.chain
        path  == inst'.path
        l     == inst'.i
    IN  /\ r <= l
        /\ l <= Len(chain)
        /\ \A j \in r..(l - 1) : ~FilterPasses(chain[j + 1], path)
        /\ l < Len(chain) => FilterPasses(chain[l + 1], path)
        /\ inst'.started = IF l < Len(chain) THEN Append(inst.started, l)
                           ELSE inst.started

\* C35: within one invocation of a composed chain the cursor never
\* decreases, each handler of the chain is invoked at most once, a filtered
\* handler whose test fails for the request path is never invoked, and
\* every accepted step (the first run(0) and every accepted next()) lands
\* on the first entry at or after the requested index that is unfiltered or
\* passes its test.
CursorOnlyAdvances ==
    [][/\ (inst.active /\ inst'.active) => inst'.i >= inst.i
       /\ (~inst.active /\ inst'.active) => LandsFrom(0)
       /\ \A k \in 0..(Len(inst.chain) - 1) :
             (/\ inst.active
              /\ inst'.active
              /\ inst'.calls = [inst.calls EXCEPT ![k + 1] = @ + 1]
              /\ inst'.last # "next() called multiple times")
             => LandsFrom(k + 1)
       /\ inst'.active =>
             /\ \A a, b \in 1..Len(inst'.started) :
                    a # b => inst'.started[a] # inst'.started[b]
             /\ \A a \in 1..Len(inst'.started) :
                    FilterPasses(inst'.chain[inst'.started[a] + 1], inst'.path)]_vars

\* Reached: an invocation in which a filtered middleware failed its test
\* and was stepped over, a rich (regex) filter passed and ran, and a second
\* next() of a handler was rejected after a later handler had started.
CursorOnlyAdvancesWitness ==
    /\ inst.active
    /\ inst.last = "next() called multiple times"
    /\ Len(inst.started) >= 3
    /\ \E j \in 0..(inst.i - 1) :
           /\ inst.chain[j + 1].filtered
           /\ ~FilterPasses(inst.chain[j + 1], inst.path)
    /\ \E a \in 1..Len(inst.started) : inst.chain[inst.started[a] + 1].rich

\* ------------------------------------------------------------------ argument validation
\* The arguments a registration method is called with, each a value with its
\* JavaScript type: "string", "number", "boolean", "function", "object" (a
\* plain object), "array", "router" (a Router instance), "null", "undefined".

Val(type, val) == [type |-> type, val |-> val]

Undefined == Val("undefined", "")

Null == Val("null", "")

\* typeof v
Typeof(v) == IF v.type \in {"object", "array", "router", "null"} THEN "object" ELSE v.type

\* `if ( ! Array.isArray(path) ) path = [path]`
AsArray(v) == IF v.type = "array" THEN v.val ELSE <<v>>

\* `for(const x of list) if ( typeof x !== type ) throw`
AllTyped(list, types) == \A i \in 1..Len(list) : list[i].type \in types

Vals(list) == [i \in 1..Len(list) |-> list[i].val]

\* The call threw: the router as the statements before the throw left it.
Thrown(W) == [W EXCEPT !.err = TRUE]

\* Router.prototype.register(methods, path, options, ...middleware)
TryRegister(W, r, methods, path, options, middleware) ==
    IF ~AllTyped(AsArray(methods), {"string"}) THEN Thrown(W)
    ELSE IF ~AllTyped(AsArray(path), {"string"}) THEN Thrown(W)
    ELSE IF options.type \notin {"null", "undefined", "object"} THEN Thrown(W)
    ELSE IF ~AllTyped(middleware, {"function"}) THEN Thrown(W)
    ELSE DoRegister(W, r, Vals(AsArray(methods)), Vals(AsArray(path)),
                    IF options.type = "object" THEN options.val ELSE << >>,
                    Vals(middleware))

\* Router.prototype[method](name, path, options, ...middleware): when the
\* second argument is no path the arguments shift by one; a function in the
\* place of the options is the first handler; `options.name = name` throws
\* on null; then register([method], path, options, ...middleware).
TryVerb(W, r, method, name, path, options, middleware) ==
    LET shift == path.type \notin {"string", "array"}
        mw1   == IF shift /\ options.type \notin {"null", "undefined"}
                 THEN <<options>> \o middleware ELSE middleware
        opt1  == IF shift THEN path ELSE options
        path1 == IF shift THEN name ELSE path
        name1 == IF shift THEN "" ELSE name.val
        mw2   == IF opt1.type = "function" THEN <<opt1>> \o mw1 ELSE mw1
        opt2  == IF opt1.type = "function" THEN Val("object", << >>) ELSE opt1
    IN  IF Typeof(opt2) # "object" \/ opt2.type = "array" THEN Thrown(W)
        ELSE IF ~AllTyped(mw2, {"function"}) THEN Thrown(W)
        ELSE IF opt2.type = "null" THEN Thrown(W)
        ELSE TryRegister(W, r, Val("array", <<Val("string", method)>>), path1,
                         Val("object", Put(opt2.val, "name", name1)), mw2)

\* Router.prototype.use(path, ...middleware)
TryUse(W, r, path, middleware) ==
    LET lead == path.type \in {"function", "router"}
        mw   == IF lead THEN <<path>> \o middleware ELSE middleware
        ps   == IF lead THEN <<Val("string", << >>)>> ELSE AsArray(path)
    IN  IF ~AllTyped(ps, {"string"}) THEN Thrown(W)
        ELSE IF ~AllTyped(mw, {"function", "router"}) THEN Thrown(W)
        ELSE DoUse(W, r, Vals(ps),
                   Vals(SelectSeq(mw, LAMBDA f : f.type = "function")),
                   Vals(SelectSeq(mw, LAMBDA f : f.type = "router")))

\* Router.prototype.nest(path, router), with the checks of _nest.
TryNest(W, r, path, router) ==
    LET lead == path.type = "router"
        rt   == IF lead THEN path ELSE router
        p    == IF lead THEN Null ELSE path
        ps   == IF p.type \in {"null", "undefined"} \/ (p.type = "string" /\ p.val = << >>)
                THEN <<Val("string", << >>)>> ELSE AsArray(p)
    IN  IF ~AllTyped(ps, {"string"}) THEN Thrown(W)
        ELSE IF rt.type # "router" THEN Thrown(W)
        ELSE DoNest(W, r, Vals(ps), rt.val)

\* Router.prototype.mount(path, options, ...middleware)
TryMount(W, r, path, options, middleware) ==
    LET mw  == IF options.type = "function" THEN <<options>> \o middleware ELSE middleware
        opt == IF options.type = "function" THEN Null ELSE options
    IN  IF Typeof(opt) # "object" THEN Thrown(W)
        ELSE IF ~AllTyped(AsArray(path), {"string"}) THEN Thrown(W)
        ELSE IF ~AllTyped(mw, {"function"}) THEN Thrown(W)
        ELSE DoMount(W, r, Vals(AsArray(path)),
                     IF opt.type = "object" THEN opt.val ELSE << >>, Vals(mw))

\* Router.prototype.param(param, ...middleware)
TryParam(W, r, param, middleware) ==
    IF param.type # "string" THEN Thrown(W)
    ELSE IF ~AllTyped(middleware, {"function"}) THEN Thrown(W)
    ELSE DoParam(W, r, param.val, Vals(middleware))

\* Router.prototype.useData(key, sort_value, ...constructor): a number in the
\* place of the weight is stored in this.dataware_sort before the
\* constructors are looked at.
TryUseData(W, r, key, sort_value, constructor) ==
    LET ctors == IF sort_value.type = "function" THEN <<sort_value>> \o constructor
                 ELSE constructor
        W1    == IF sort_value.type = "number"
                 THEN [W EXCEPT !.dataware_sort[r] = Put(@, key.val, <<sort_value.val>>)]
                 ELSE W
    IN  IF key.type # "string" THEN Thrown(W)
        ELSE IF sort_value.type \notin {"function", "number"} THEN Thrown(W)
        ELSE IF ~AllTyped(ctors, {"function"}) THEN Thrown(W1)
        ELSE DoUseData(W1, r, key.val, << >>, Vals(ctors))

\* Router.prototype.defaultData(key, value)
TryDefaultData(W, r, key, value) ==
    IF key.type # "string" THEN Thrown(W)
    ELSE DoDefaultData(W, r, key.val, IF value.type = "undefined" THEN "" ELSE value.val)

\* Router.prototype.sortData(key, sort_value = 0)
TrySortData(W, r, key, sort_value) ==
    LET sv == IF sort_value.type = "undefined" THEN Val("number", 0) ELSE sort_value
    IN  IF key.type # "string" THEN Thrown(W)
        ELSE IF sv.type # "number" THEN Thrown(W)
        ELSE DoSortData(W, r, key.val, sv.val)

\* Router.prototype.setDataExclusive(key, exclusive = true)
TrySetDataExclusive(W, r, key, exclusive) ==
    LET ex == IF exclusive.type = "undefined" THEN Val("boolean", TRUE) ELSE exclusive
    IN  IF key.type # "string" THEN Thrown(W)
        ELSE IF ex.type # "boolean" THEN Thrown(W)
        ELSE DoSetDataExclusive(W, r, key.val, ex.val)

\* ------------------------------------------------------------------ SpecArgs
\* Router r0 and the router r1 it may nest; every registration method is
\* called on r0 with arguments of the right and of the wrong types.

MaxRegsArgs == 3

NotAFunction == Val("string", "f")

\* The arguments tried, by position.
KeyArgs == <<Val("string", DataKey), Undefined>>

HandlerArgs == <<<< >>, <<Val("function", Own("r0"))>>, <<NotAFunction>>>>

VerbOptions == <<Val("object", << >>), Val("function", Own("r0")), Val("number", 1), Undefined>>

NamedPaths == <<Val("string", PathB), Val("array", <<Val("string", PathB)>>),
                Val("array", <<Val("number", 1)>>)>>

NamedOptions == <<Val("object", << >>), Null, Val("array", << >>)>>

RegisterMethods == <<Val("string", "get"), Val("array", <<Val("string", "put")>>),
                     Val("number", 1)>>

RegisterPaths == <<Val("string", PathAP), Val("number", 1)>>

RegisterOptions == <<Null, Val("object", << >>), Val("array", << >>), Val("string", "o")>>

MountOptions == <<Val("function", Own("r0")), Val("object", << >>), Null, Undefined>>

UsePaths == <<Val("function", Mw(1)), Val("router", "r1"), Val("string", PathA),
              Val("number", 1)>>

UseArgs == <<<< >>, <<Val("function", Mw(2))>>, <<Val("router", "r1")>>, <<NotAFunction>>>>

NestPaths == <<Val("router", "r1"), Val("string", PathA), Val("string", << >>), Null,
               Val("number", 1)>>

NestRouters == <<Val("router", "r1"), Undefined>>

ParamArgs == <<Val("string", ":p"), Undefined>>

ParamFns == <<<<Val("function", Fn("fn", "r0", 0, ""))>>, <<NotAFunction>>>>

UseDataWeights == <<Val("function", CtorOf("r0")), Val("number", 5), Undefined>>

UseDataCtors == <<<< >>, <<Val("function", CtorOf("r1"))>>, <<NotAFunction>>>>

DefaultArgs == <<Val("string", DefaultOf("r0")), Undefined>>

SortArgs == <<Val("number", 1), Undefined, Val("string", "1")>>

ExclusiveArgs == <<Val("boolean", TRUE), Val("boolean", FALSE), Undefined, Val("number", 1)>>

\* What r0 holds: its routes, middleware entries, mount paths, parameters,
\* dataware keys, sort overrides, defaults and exclusive keys.
HeldArgs ==
    Len(routes["r0"]) + Len(middlewares["r0"]) + Len(nested["r0"]) + Len(paramwares["r0"])
    + Len(datawares["r0"]) + Len(dataware_sort["r0"]) + Len(dataware_default["r0"])
    + Len(dataware_exclusive["r0"])

\* A router holds the mount constructor, its weight and its exclusion from
\* the start.
HeldAtFirst == 3

InitArgs == Constructed([r \in Routers |-> DefaultOpts])

ArgsVerb ==
    \E o \in DOMAIN VerbOptions, mw \in DOMAIN HandlerArgs :
        /\ HeldArgs < HeldAtFirst + MaxRegsArgs
        /\ routes["r0"] = << >>
        /\ Install(TryVerb(World, "r0", "get", Val("string", PathA), VerbOptions[o],
                           IF HandlerArgs[mw] = << >> THEN Undefined ELSE HandlerArgs[mw][1],
                           << >>))

ArgsNamedVerb ==
    \E p \in DOMAIN NamedPaths, o \in DOMAIN NamedOptions, mw \in DOMAIN HandlerArgs :
        /\ HeldArgs < HeldAtFirst + MaxRegsArgs
        /\ routes["r0"] = << >>
        /\ Install(TryVerb(World, "r0", "post", Val("string", "x"), NamedPaths[p],
                           NamedOptions[o], HandlerArgs[mw]))

ArgsRegister ==
    \E m \in DOMAIN RegisterMethods, p \in DOMAIN RegisterPaths,
       o \in DOMAIN RegisterOptions, mw \in {2, 3} :
        /\ HeldArgs < HeldAtFirst + MaxRegsArgs
        /\ routes["r0"] = << >>
        /\ Install(TryRegister(World, "r0", RegisterMethods[m], RegisterPaths[p],
                               RegisterOptions[o], HandlerArgs[mw]))

ArgsMount ==
    \E p \in DOMAIN RegisterPaths, o \in DOMAIN MountOptions, mw \in DOMAIN HandlerArgs :
        /\ HeldArgs < HeldAtFirst + MaxRegsArgs
        /\ routes["r0"] = << >>
        /\ Install(TryMount(World, "r0", RegisterPaths[p], MountOptions[o], HandlerArgs[mw]))

ArgsUse ==
    \E p \in DOMAIN UsePaths, mw \in DOMAIN UseArgs :
        /\ HeldArgs < HeldAtFirst + MaxRegsArgs
        /\ middlewares["r0"] = << >>
        /\ Install(TryUse(World, "r0", UsePaths[p], UseArgs[mw]))

ArgsNest ==
    \E p \in DOMAIN NestPaths, c \in DOMAIN NestRouters :
        /\ HeldArgs < HeldAtFirst + MaxRegsArgs
        /\ nested["r0"] = << >>
        /\ Install(TryNest(World, "r0", NestPaths[p], NestRouters[c]))

ArgsParam ==
    \E p \in DOMAIN ParamArgs, mw \in DOMAIN ParamFns :
        /\ HeldArgs < HeldAtFirst + MaxRegsArgs
        /\ paramwares["r0"] = << >>
        /\ Install(TryParam(World, "r0", ParamArgs[p], ParamFns[mw]))

ArgsUseData ==
    \E k \in DOMAIN KeyArgs, s \in DOMAIN UseDataWeights, c \in DOMAIN UseDataCtors :
        /\ HeldArgs < HeldAtFirst + MaxRegsArgs
        /\ UserCtors("r0") = 0
        /\ Install(TryUseData(World, "r0", KeyArgs[k], UseDataWeights[s], UseDataCtors[c]))

ArgsDefaultData ==
    \E k \in DOMAIN KeyArgs, v \in DOMAIN DefaultArgs :
        /\ HeldArgs < HeldAtFirst + MaxRegsArgs
        /\ Has(dataware_default["r0"], DataKey) => DefaultArgs[v].type = "undefined"
        /\ Install(TryDefaultData(World, "r0", KeyArgs[k], DefaultArgs[v]))

ArgsSortData ==
    \E k \in DOMAIN KeyArgs, s \in DOMAIN SortArgs :
        /\ HeldArgs < HeldAtFirst + MaxRegsArgs
        /\ Install(TrySortData(World, "r0", KeyArgs[k], SortArgs[s]))

ArgsSetDataExclusive ==
    \E k \in DOMAIN KeyArgs, x \in DOMAIN ExclusiveArgs :
        /\ HeldArgs < HeldAtFirst + MaxRegsArgs
        /\ Install(TrySetDataExclusive(World, "r0", KeyArgs[k], ExclusiveArgs[x]))

ArgsMiddleware == Middleware("r0")

NextArgs ==
    \/ ArgsVerb
    \/ ArgsNamedVerb
    \/ ArgsRegister
    \/ ArgsMount
    \/ ArgsUse
    \/ ArgsNest
    \/ ArgsParam
    \/ ArgsUseData
    \/ ArgsDefaultData
    \/ ArgsSortData
    \/ ArgsSetDataExclusive
    \/ ArgsMiddleware

SpecArgs == InitArgs /\ [][NextArgs]_vars

\* ------------------------------------------------------------------ C36

\* C36: a registration call that throws leaves every router as it was
\* before the call: the routes, middleware, paramware, dataware
\* constructors, sort overrides, defaults, exclusive keys, nested children
\* and parents, and the merged view.
ThrowLeavesRouterUnchanged ==
    [][failed' => UNCHANGED <<routes, middlewares, paramwares, datawares,
                              dataware_sort, dataware_default, dataware_exclusive,
                              nested, parents, live, m_routes, m_middlewares,
                              m_named, m_routers>>]_vars

\* ------------------------------------------------------------------ C37

\* C37: when a registration call fails with a host conflict the router is
\* as it was before the call: the raw registrations of every router are
\* unchanged (the offending route is not kept), a request the live table of
\* r0 answered before the call is still answered, and a later valid
\* registration (GET /b without a host) on r0 succeeds.
HostConflictRollsBack ==
    [][(~failed /\ failed') =>
          /\ routes' = routes
          /\ \A h \in {"", "x.h", "y.h"} :
                 (live["r0"] /\ Match(World, "r0", h, PathA).found)
                     => Match(World, "r0", h, PathA)'.found
          /\ ~DoVerb(World, "r0", "get", "", <<PathB>>, << >>, <<Own("r0")>>)'.err]_vars

\* ------------------------------------------------------------------ C38

\* C38: paramware registered on a router N is part of the chain of a route
\* only when the route was registered on a router of N's subtree (N or a
\* router nested, directly or not, in N); a route registered on a sibling
\* or an ancestor of N never runs it, whatever other methods the same full
\* path has.
ParamwareStaysInSubtree ==
    \A e \in Dispatched("r0") : \A f \in Elems(ParamwareOf(e.fn)) :
        OwnerOf(ChainFns(e.fn)) \in Subtree(f.id)

\* ------------------------------------------------------------------ SpecDup
\* The root r0 and the router r1 (with the host y.h or none) nested in it at
\* '': GET and POST /a registered again and again on both, with or without
\* the data key in the options, each registration with a handler of its own.

MaxRoutesDup == 4

InitDup ==
    \E h \in {"", "y.h"} :
        Constructed([r \in Routers |->
                       NewOpts(<< >>, "", IF r = "r1" THEN h ELSE "", FALSE, TRUE,
                               "default", "default")])

DupNest ==
    /\ nested["r0"] = << >>
    /\ Nest("r0", << << >> >>, "r1")

DupUseData ==
    /\ UserCtors("r0") = 0
    /\ UseData("r0", DataKey, << >>, <<CtorOf("r0")>>)

DupVerb ==
    \E r \in {"r0", "r1"}, m \in {"get", "post"},
       o \in {<< >>, <<[k |-> DataKey, v |-> "5"]>>} :
        /\ Len(routes["r0"]) + Len(routes["r1"]) < MaxRoutesDup
        /\ Verb(r, m, "", <<PathA>>, o, <<Fn("own", r, Len(routes[r]) + 1, "")>>)

DupMiddleware == Middleware("r0")

NextDup ==
    \/ DupNest
    \/ DupUseData
    \/ DupVerb
    \/ DupMiddleware

SpecDup == InitDup /\ [][NextDup]_vars

\* ------------------------------------------------------------------ C40

\* The registrations r0 merges, in the order it merges them: its own in the
\* order they were made, then those of the routers nested in it.
MergedRegs ==
    [i \in 1..Len(routes["r0"]) |-> [r |-> "r0", reg |-> routes["r0"][i]]]
        \o (IF "r1" \in Children("r0")
            THEN [i \in 1..Len(routes["r1"]) |-> [r |-> "r1", reg |-> routes["r1"][i]]]
            ELSE << >>)

\* The host a registration of router r is merged under in r0.
KeyHost(r) == IF opts[r].host # "" THEN opts[r].host ELSE opts["r0"].host

\* The registrations of (host H, /a, method m) in merge order.
RegsFor(H, m) ==
    SelectSeq(MergedRegs, LAMBDA x : KeyHost(x.r) = H /\ Has(x.reg.ms, m)
                                     /\ PathA \in Elems(x.reg.paths))

\* The handlers of a chain that a route registration brought.
OwnHandlers(fn) == SelectSeq(ChainFns(fn), LAMBDA f : f.kind = "own")

\* C40: of the registrations of one (router host, full path, method) in the
\* tree of the live root exactly one is dispatched, the last one merged:
\* the entry has the options and the handlers of that registration alone,
\* the chain holds a dataware handler exactly when those options name the
\* key and r0 has a constructor for it, and a method that was registered at
\* all has its entry.
LastMergedIsDispatched ==
    live["r0"] =>
        \A H \in {"", "y.h"}, m \in {"get", "post"} :
            LET regs == RegsFor(H, m)
                es   == {e \in Dispatched("r0") : e.host = H /\ e.path = PathA /\ e.method = m}
            IN  IF regs = << >> THEN es = {}
                ELSE LET last == Get(regs[Len(regs)].reg.ms, m)
                     IN  /\ Cardinality(es) = 1
                         /\ \A e \in es :
                                /\ OwnHandlers(e.fn) = last.middleware
                                /\ e.options = last.options
                                /\ (\E f \in Elems(ChainFns(e.fn)) : f.kind = "dw")
                                       <=> (Has(last.options, DataKey)
                                            /\ HasCtor("r0", DataKey))

\* Reached: r0 is live and holds a constructor for the key; GET /a was
\* registered twice on r0, the first time with the key, and once more on the
\* nested r1, which has no host of its own; POST /a was registered once.
LastMergedIsDispatchedWitness ==
    /\ live["r0"]
    /\ HasCtor("r0", DataKey)
    /\ opts["r1"].host = ""
    /\ Len(RegsFor("", "get")) = 3
    /\ Len(RegsFor("", "post")) = 1
    /\ RegsFor("", "get")[2].r = "r0"
    /\ RegsFor("", "get")[3].r = "r1"
    /\ Has(Get(RegsFor("", "get")[1].reg.ms, "get").options, DataKey)
    /\ ~Has(Get(RegsFor("", "get")[3].reg.ms, "get").options, DataKey)

====
